---------------------------- MODULE Spec2Model ----------------------------
(***************************************************************************)
(* Model of the report service MS-REPORT-PY (src/src/routers/reports.py    *)
(* and src/src/utils/http_client.py).                                      *)
(*                                                                         *)
(* The service keeps no data of its own: every request fetches snapshots   *)
(* from the collaborator services and derives a report.  The state of the  *)
(* model is the request being served (its query parameters and the data    *)
(* the collaborators hold while it is served) and the response it got.     *)
(* Each handler is one action: asyncio runs a handler's code between two   *)
(* awaits without interruption and the handlers share no data, so the      *)
(* response is a function of the query and of the fetched snapshots.       *)
(*                                                                         *)
(* Numbers.  Figures that the code rounds with round(x, 2) are integers    *)
(* in hundredths (25.0 is 2500); a popularity threshold is an integer in   *)
(* thousandths.  Round2 rounds an exact quotient half-to-even, which is    *)
(* what round() does on the binary64 value wherever the quotient is not    *)
(* within one ulp of a tie; the input ranges below stay clear of those.    *)
(*                                                                         *)
(* The sales endpoints read the clock and a pseudo-random stream: now is   *)
(* datetime.utcnow() in hours, rng is the state of the Random object the   *)
(* last sales request drew from, and runs records, for the last two runs   *)
(* of the sales generator, what each was given and what it returned.       *)
(*                                                                         *)
(* A request first passes the dependency get_current_user, which reads the *)
(* bearer token (variable token) and either rejects the request with 401   *)
(* or hands the user to the handler.  fetches is the sequence of calls the *)
(* request in flight has made to the collaborators, each a pair of the     *)
(* client method and its argument.  paging is the paginated get_visits     *)
(* call of the client, observed page by page.  tasks holds the requests    *)
(* that the event loop serves at the same time, each with the local        *)
(* variables of its handler and the await it is suspended at.              *)
(***************************************************************************)
EXTENDS Integers, Sequences, FiniteSets, TLC

VARIABLES request, response, rng, now, runs, token, fetches, paging, tasks

vars == <<request, response, rng, now, runs, token, fetches, paging, tasks>>

(***************************************************************************)
(* Generic helpers (Python built-ins used by the handlers).                *)
(***************************************************************************)

\* None, an absent key, 0 and "" are all falsy in the code's tests
\* ("if zone_id", "if not product_id"); ids are positive integers, so the
\* model writes every one of them as 0.
None == 0

NoRequest == [endpoint |-> "none"]

NoResponse == [status |-> 0]

Max(a, b) == IF a >= b THEN a ELSE b

Min(a, b) == IF a <= b THEN a ELSE b

\* round(num / den) of Python 3 for num >= 0, den > 0: to the nearest integer,
\* a tie to the even one.
RoundDiv(num, den) ==
    LET q == num \div den
        r == num % den
    IN  IF 2 * r > den \/ (2 * r = den /\ q % 2 = 1) THEN q + 1 ELSE q

\* round(num / den, 2), in hundredths.
Round2(num, den) == RoundDiv(100 * num, den)

RECURSIVE SumSeq(_)
SumSeq(s) == IF s = <<>> THEN 0 ELSE Head(s) + SumSeq(Tail(s))

Range(s) == {s[i] : i \in 1..Len(s)}

\* n copies of x, as a list
Repeat(x, n) == [i \in 1..n |-> x]

RECURSIVE Concat(_)
Concat(ss) == IF ss = <<>> THEN <<>> ELSE Head(ss) \o Concat(Tail(ss))

\* list.sort(key=...) and sorted(..., key=...), as the order in which the
\* positions 1..n of the list come out, keys[i] being the key of the i-th
\* element.  Python's sort is stable, also with reverse=True: elements with
\* equal keys keep their original relative order.
ComesBefore(keys, reverse, j, i) ==
    \/ IF reverse THEN keys[j] > keys[i] ELSE keys[j] < keys[i]
    \/ keys[j] = keys[i] /\ j < i

SortOrder(keys, reverse, n) ==
    [p \in 1..n |->
        CHOOSE i \in 1..n :
            Cardinality({j \in 1..n : ComesBefore(keys, reverse, j, i)}) = p - 1]

SortBy(s, keys, reverse) ==
    LET order == SortOrder(keys, reverse, Len(s)) IN [n \in 1..Len(s) |-> s[order[n]]]

\* next((z["name"] for z in zones if z["id"] == id), default)
RECURSIVE NameById(_, _, _)
NameById(rows, id, default) ==
    IF rows = <<>> THEN default
    ELSE IF Head(rows).id = id THEN Head(rows).name
    ELSE NameById(Tail(rows), id, default)

(***************************************************************************)
(* The collaborator client (MicroserviceClient).  db is what the           *)
(* collaborators hold while the request is served; a collaborator that is  *)
(* unreachable or answers with a non-200 status makes the call return [].  *)
(***************************************************************************)

get_all_cities(db) == IF db.geo_up THEN db.cities ELSE <<>>

get_all_zones(db, city_id) ==
    IF ~db.geo_up THEN <<>>
    ELSE IF city_id # None
         THEN LET InCity(z) == z.city_id = city_id IN SelectSeq(db.zones, InCity)
         ELSE db.zones

get_all_sellers(db, zone_id) ==
    IF ~db.user_up THEN <<>>
    ELSE IF zone_id # None
         THEN LET InZone(s) == s.zone_id = zone_id IN SelectSeq(db.sellers, InZone)
         ELSE db.sellers

get_all_shopkeepers(db, seller_id) ==
    IF ~db.user_up THEN <<>>
    ELSE IF seller_id # None
         THEN LET OfSeller(k) == k.seller_id = seller_id IN SelectSeq(db.shopkeepers, OfSeller)
         ELSE db.shopkeepers

get_all_assignments(db) == IF db.user_up THEN db.assignments ELSE <<>>


(***************************************************************************)
(* Collaborator data sets.  A data set is described by one row per seller  *)
(* (its zone and the number of shopkeepers the directory lists for it);    *)
(* the lists the collaborators return are built from the rows.             *)
(***************************************************************************)

\* A seller row without the optional key "total_shopkeepers".
NoField == -1

ZoneName(z) == IF z = 1 THEN "Norte" ELSE IF z = 2 THEN "Sur" ELSE "Centro"

\* Zone z belongs to city z: one zone per city unless a data set says otherwise.
ZoneRows(nz) == [z \in 1..nz |-> [id |-> z, name |-> ZoneName(z), city_id |-> z]]

CityRows(nc) == [c \in 1..nc |-> [id |-> c, name |-> c]]

SellerRows(rows) ==
    [i \in 1..Len(rows) |->
        [id |-> i, name |-> i, zone_id |-> rows[i].zone_id,
         total_shopkeepers |-> rows[i].total_shopkeepers]]

\* The shopkeeper directory: rows[i].listed shopkeepers for seller i, one
\* after the other, with consecutive ids.
RECURSIVE ShopkeeperRows(_, _, _)
ShopkeeperRows(rows, i, first_id) ==
    IF i > Len(rows) THEN <<>>
    ELSE [j \in 1..rows[i].listed |-> [id |-> first_id + j - 1, seller_id |-> i]]
         \o ShopkeeperRows(rows, i + 1, first_id + rows[i].listed)

(***************************************************************************)
(* GET /sellers-performance                                                *)
(***************************************************************************)

optimal_load == 40

over_limit == 80

overload_penalty == 50

\* The unrounded efficiency, as the numerator of a fraction over optimal_load.
IsLowLoad(shopkeeper_count) == shopkeeper_count <= optimal_load

\* (mutant: the overload branch without its max(0, ...))
EfficiencyNoClamp(shopkeeper_count) ==
    IF shopkeeper_count = 0 THEN 0
    ELSE IF IsLowLoad(shopkeeper_count) THEN shopkeeper_count * 100
    ELSE 100 * optimal_load - (shopkeeper_count - optimal_load) * overload_penalty

EfficiencyNumerator(shopkeeper_count) ==
    IF shopkeeper_count = 0 THEN 0
    ELSE IF IsLowLoad(shopkeeper_count) THEN shopkeeper_count * 100
    ELSE Max(0, 100 * optimal_load - (shopkeeper_count - optimal_load) * overload_penalty)

SellerPerformanceItem(db, zones, seller) ==
    LET seller_shopkeepers == get_all_shopkeepers(db, seller.id)
        shopkeeper_count ==
            IF seller.total_shopkeepers # NoField THEN seller.total_shopkeepers
            ELSE Len(seller_shopkeepers)
    IN  [seller_id |-> seller.id,
         zone_name |-> NameById(zones, seller.zone_id, "Sin zona"),
         total_shopkeepers |-> shopkeeper_count,
         is_over_limit |-> shopkeeper_count > over_limit,
         efficiency_score |-> Round2(EfficiencyNumerator(shopkeeper_count), optimal_load)]

get_sellers_performance(db, zone_id) ==
    LET sellers == get_all_sellers(db, zone_id)
        zones == get_all_zones(db, None)
        sellers_data == [i \in 1..Len(sellers) |-> SellerPerformanceItem(db, zones, sellers[i])]
        total_shopkeepers == SumSeq([i \in 1..Len(sellers) |-> sellers_data[i].total_shopkeepers])
    IN  [status |-> 200,
         total_sellers |-> Len(sellers),
         avg_shopkeepers_per_seller |->
            IF Len(sellers) > 0 THEN Round2(total_shopkeepers, Len(sellers)) ELSE 0,
         sellers |-> sellers_data]

\* Bounds of the sellers-performance data sets.
MaxCount == 125

PerfSellers == 2

\* The first seller sweeps every load 0..MaxCount; it and the others also
\* take the boundary cases: no zone, and a total_shopkeepers key that differs
\* from the number of shopkeepers the directory lists (the key wins).
PerfRowNarrow ==
    [zone_id : {None}, total_shopkeepers : {NoField}, listed : {3}]
    \cup [zone_id : {1}, total_shopkeepers : {0, optimal_load + 1}, listed : {1}]

PerfRowWide ==
    [zone_id : {1}, total_shopkeepers : {NoField}, listed : 0..MaxCount]
    \cup PerfRowNarrow

PerfRows ==
    {<<>>} \cup
    UNION {{f \in [1..n -> PerfRowWide] : \A i \in 2..n : f[i] \in PerfRowNarrow} :
            n \in 1..PerfSellers}

PerfDb(rows) ==
    [geo_up |-> TRUE, user_up |-> TRUE,
     cities |-> CityRows(1), zones |-> ZoneRows(1),
     sellers |-> SellerRows(rows),
     shopkeepers |-> ShopkeeperRows(rows, 1, 1),
     assignments |-> <<>>]

(***************************************************************************)
(* Authentication (src/src/utils/auth.py).  A token is described by what   *)
(* the code can tell of it: the scheme of the Authorization header, whether*)
(* jwt.decode accepts it (signature, expiry, format) and its claims sub and*)
(* role.                                                                   *)
(***************************************************************************)

\* A string field a record does not carry (get() gives None).
NoText == ""

Credentials(scheme, decodes, sub, role) ==
    [scheme |-> scheme, decodes |-> decodes, sub |-> sub, role |-> role]

\* A request without an Authorization header.
NoCredentials == Credentials("none", FALSE, None, NoText)

\* The tokens that are turned away: no header, another scheme than Bearer, a
\* token jwt.decode raises JWTError on, and a well-signed token without sub.
InvalidTokens ==
    {NoCredentials,
     Credentials("basic", TRUE, 1, "ADMIN"),
     Credentials("bearer", FALSE, 1, "ADMIN"),
     Credentials("bearer", TRUE, None, "ADMIN")}

ValidToken(role) == Credentials("bearer", TRUE, 1, role)

Unauthorized == [status |-> 401]

\* decode_token that trusts any token jwt.decode accepts.
decode_token_without_sub(tk) ==
    IF ~tk.decodes THEN Unauthorized
    ELSE [status |-> 200, email |-> tk.sub, role |-> tk.role]

decode_token(tk) ==
    IF ~tk.decodes THEN Unauthorized
    ELSE IF tk.sub = None THEN Unauthorized
    ELSE [status |-> 200, email |-> tk.sub, role |-> tk.role]

\* oauth2_scheme raises 401 unless the header is "Bearer <token>"; the token
\* then goes to decode_token.
get_current_user(tk) ==
    IF tk.scheme # "bearer" THEN Unauthorized ELSE decode_token(tk)

\* A request for an endpoint arrives and its dependencies are resolved: a
\* rejected request is answered at once, an accepted one waits for its handler.
Arrive(endpoint, roles) ==
    /\ request = NoRequest
    /\ \E tk \in InvalidTokens \cup {ValidToken(role) : role \in roles} :
        /\ token' = tk
        /\ IF get_current_user(tk).status = 401
           THEN /\ request' = [endpoint |-> "rejected", target |-> endpoint]
                /\ response' = Unauthorized
           ELSE /\ request' = [endpoint |-> "admitted", target |-> endpoint]
                /\ response' = NoResponse
        /\ UNCHANGED <<rng, now, runs, fetches, paging, tasks>>

\* The handler of an endpoint is about to run.
Admitted(endpoint) == request = [endpoint |-> "admitted", target |-> endpoint]

\* The roles the callers of the model bear; the restricted endpoints are also
\* called with the lower-case spelling that require_admin compares with.
Roles == {"ADMIN", "SELLER"}

RestrictedRoles == Roles \cup {"admin"}

\* One call of a client method, with the argument that selects its data.
Call(method, arg) == <<method, arg>>

\* The calls get_sellers_performance makes: sellers, zones, then the
\* shopkeepers of each seller.
PerformanceFetches(db, zone_id) ==
    LET sellers == get_all_sellers(db, zone_id)
    IN  <<Call("get_all_sellers", zone_id), Call("get_all_zones", None)>>
        \o [i \in 1..Len(sellers) |-> Call("get_all_shopkeepers", sellers[i].id)]

SellersPerformance ==
    /\ Admitted("sellers-performance")
    /\ \E rows \in PerfRows, zone_id \in {None, 1} :
        /\ request' = [endpoint |-> "sellers-performance", rows |-> rows, zone_id |-> zone_id]
        /\ response' = get_sellers_performance(PerfDb(rows), zone_id)
        /\ fetches' = PerformanceFetches(PerfDb(rows), zone_id)
        /\ UNCHANGED <<rng, now, runs, token, paging, tasks>>

\* The hour at which the service starts: 22:00 of day 62, counted from a day
\* early enough for every generated sale to bear a positive date.
utcnow_at_start == 62 * 24 + 22

Init ==
    /\ request = NoRequest
    /\ response = NoResponse
    /\ rng = None
    /\ now = utcnow_at_start
    /\ runs = <<>>
    /\ token = NoCredentials
    /\ fetches = <<>>
    /\ paging = [pc |-> "idle"]
    /\ tasks = <<>>

\* The response is sent and nothing of the request is kept.
Reply ==
    /\ response # NoResponse
    /\ request' = NoRequest
    /\ response' = NoResponse
    /\ token' = NoCredentials
    /\ fetches' = <<>>
    /\ UNCHANGED <<rng, now, runs, paging, tasks>>

NextPerformance == Arrive("sellers-performance", Roles) \/ SellersPerformance \/ Reply

SpecPerformance == Init /\ [][NextPerformance]_vars

\* The shopkeeper counts the report of the current request shows.
PerfItems == IF request.endpoint = "sellers-performance" THEN Range(response.sellers) ELSE {}

C2_EfficiencyExamples ==
    \A item \in PerfItems :
        /\ item.total_shopkeepers = 40 => item.efficiency_score = 10000
        /\ item.total_shopkeepers = 20 => item.efficiency_score = 5000
        /\ item.total_shopkeepers = 80 => item.efficiency_score = 0
        /\ item.total_shopkeepers = 0 => item.efficiency_score = 0

(***************************************************************************)
(* GET /coverage                                                           *)
(***************************************************************************)

max_per_seller == 80

\* (mutant: every shopkeeper with a seller is counted in every zone)
ZoneShopkeeperCountAnySeller(zone_sellers, shopkeepers) ==
    LET Assigned(k) == k.seller_id # None IN Len(SelectSeq(shopkeepers, Assigned))

\* zone_shopkeeper_count: for each seller of the zone, the shopkeepers whose
\* seller_id is that seller's id.
ZoneShopkeeperCount(zone_sellers, shopkeepers) ==
    LET PerSeller(seller) ==
            LET OfSeller(k) == k.seller_id = seller.id IN Len(SelectSeq(shopkeepers, OfSeller))
    IN  SumSeq([i \in 1..Len(zone_sellers) |-> PerSeller(zone_sellers[i])])

CoverageByZoneItem(zone, sellers, shopkeepers) ==
    LET InZone(s) == s.zone_id = zone.id
        zone_sellers == SelectSeq(sellers, InZone)
        zone_shopkeeper_count == ZoneShopkeeperCount(zone_sellers, shopkeepers)
        max_expected == Len(zone_sellers) * max_per_seller
    IN  [zone_id |-> zone.id,
         zone_name |-> zone.name,
         total_sellers |-> Len(zone_sellers),
         total_shopkeepers |-> zone_shopkeeper_count,
         coverage_percentage |->
            IF max_expected > 0 THEN Round2(zone_shopkeeper_count * 100, max_expected) ELSE 0]

get_coverage_report(db, city_id) ==
    LET cities == get_all_cities(db)
        zones == get_all_zones(db, city_id)
        sellers == get_all_sellers(db, None)
        shopkeepers == get_all_shopkeepers(db, None)
    IN  [status |-> 200,
         total_cities |-> IF city_id = None THEN Len(cities) ELSE 1,
         total_zones |-> Len(zones),
         total_sellers |-> Len(sellers),
         total_shopkeepers |-> Len(shopkeepers),
         zones |-> [i \in 1..Len(zones) |-> CoverageByZoneItem(zones[i], sellers, shopkeepers)]]

\* Bounds of the coverage data sets: up to CovSellers sellers over the zones
\* CovZones (or in no zone), each with no shopkeeper, a light load or more than
\* max_per_seller of them; one shopkeeper more has no seller.
CovSellers == 3

CovZones == {1, 2}

CovLoads == {0, 20, max_per_seller + 1}

CovRow == [zone_id : {None} \cup CovZones, total_shopkeepers : {NoField}, listed : CovLoads]

CovRows == UNION {[1..n -> CovRow] : n \in 0..CovSellers}

\* Which collaborators answer: all of them, or all but one.
Availability == {<<TRUE, TRUE>>, <<FALSE, TRUE>>, <<TRUE, FALSE>>}

CovDb(rows, up) ==
    [geo_up |-> up[1], user_up |-> up[2],
     cities |-> CityRows(Cardinality(CovZones)), zones |-> ZoneRows(Cardinality(CovZones)),
     sellers |-> SellerRows(rows),
     shopkeepers |-> <<[id |-> 1, seller_id |-> None]>> \o ShopkeeperRows(rows, 1, 2),
     assignments |-> <<>>]

\* The calls get_coverage_report makes.
CoverageFetches(city_id) ==
    <<Call("get_all_cities", None), Call("get_all_zones", city_id),
      Call("get_all_sellers", None), Call("get_all_shopkeepers", None)>>

CoverageReport ==
    /\ Admitted("coverage")
    /\ \E rows \in CovRows, up \in Availability, city_id \in {None, 1} :
        /\ request' = [endpoint |-> "coverage", rows |-> rows, up |-> up, city_id |-> city_id]
        /\ response' = get_coverage_report(CovDb(rows, up), city_id)
        /\ fetches' = CoverageFetches(city_id)
        /\ UNCHANGED <<rng, now, runs, token, paging, tasks>>

NextCoverage == Arrive("coverage", Roles) \/ CoverageReport \/ Reply

SpecCoverage == Init /\ [][NextCoverage]_vars

CovItems == IF request.endpoint = "coverage" THEN Range(response.zones) ELSE {}

\* The shopkeepers whose seller belongs to zone z, and the sellers of zone z,
\* among the fetched ones.
ShopkeepersInZone(z, sellers, shopkeepers) ==
    LET ids == {s.id : s \in {t \in sellers : t.zone_id = z}}
    IN  {k \in shopkeepers : k.seller_id \in ids}

SellersInZone(z, sellers) == {s \in sellers : s.zone_id = z}

\* C3: for every zone of the coverage report, coverage_percentage is
\* shopkeepers_in_zone / (sellers_in_zone * 80) * 100 rounded to two decimals
\* (within half a hundredth of the exact quotient), where shopkeepers_in_zone
\* are the shopkeepers whose seller belongs to the zone; it is 0 when the zone
\* has no sellers, and it is not clamped: with more than 80 shopkeepers per
\* seller it is above 100.
C3_CoveragePercentage ==
    LET fetched == CovDb(request.rows, request.up)
        sellers == Range(get_all_sellers(fetched, None))
        shopkeepers == Range(get_all_shopkeepers(fetched, None))
    IN
    \A item \in CovItems :
        LET n_shop == Cardinality(ShopkeepersInZone(item.zone_id, sellers, shopkeepers))
            n_sell == Cardinality(SellersInZone(item.zone_id, sellers))
            c == item.coverage_percentage
            diff == c * n_sell * 80 - 10000 * n_shop
        IN  /\ item.total_shopkeepers = n_shop
            /\ item.total_sellers = n_sell
            /\ n_sell = 0 => c = 0
            /\ n_sell > 0 => 2 * diff <= n_sell * 80 /\ -2 * diff <= n_sell * 80
            /\ (n_sell = 3 /\ n_shop = 60) => c = 2500
            /\ (n_sell > 0 /\ n_shop > 80 * n_sell) => c > 10000

\* A report with the documented case (3 sellers, 60 shopkeepers: 25.0), and a
\* report with a zone above 100 next to a zone without sellers.
C3_Witness ==
    \/ \E item \in CovItems :
        item.total_sellers = 3 /\ item.total_shopkeepers = 60 /\ item.coverage_percentage = 2500
    \/ /\ \E item \in CovItems : item.total_sellers = 1 /\ item.coverage_percentage = 10125
       /\ \E item \in CovItems : item.total_sellers = 0 /\ item.coverage_percentage = 0

(***************************************************************************)
(* GET /sales-comparison                                                   *)
(***************************************************************************)

full_score_load == 50

allowed_types == {"zones", "cities", "both"}

\* a.get("is_active", True): a row without the key counts as active.
IsActiveAssignment(a) == a.is_active # "false"

\* len([a for a in active_assignments if a.get("seller_id") in seller_ids])
AssignedCount(active_assignments, seller_ids) ==
    LET OfSellers(a) == a.seller_id \in seller_ids IN Len(SelectSeq(active_assignments, OfSellers))

\* (mutant: the score is not capped at 100)
PerformanceScoreNoCap(shopkeepers_count, sellers_count) ==
    IF sellers_count > 0
    THEN Round2(shopkeepers_count * 100, sellers_count * full_score_load)
    ELSE 0

\* round(min(100, (avg_shopkeepers / 50) * 100), 2), with avg_shopkeepers =
\* shopkeepers_count / sellers_count; 0 without sellers.  (100 is a multiple
\* of 0.01, so capping before or after the rounding gives the same value.)
PerformanceScore(shopkeepers_count, sellers_count) ==
    IF sellers_count > 0
    THEN Min(10000, Round2(shopkeepers_count * 100, sellers_count * full_score_load))
    ELSE 0

\* round(avg_shopkeepers, 2); 0 without sellers.
MarketPenetration(shopkeepers_count, sellers_count) ==
    IF sellers_count > 0 THEN Round2(shopkeepers_count, sellers_count) ELSE 0

SalesComparisonItem(zone, cities, sellers, active_assignments) ==
    LET InZone(s) == s.zone_id = zone.id
        zone_sellers == SelectSeq(sellers, InZone)
        zone_seller_ids == {s.id : s \in Range(zone_sellers)}
        zone_shopkeepers_count == AssignedCount(active_assignments, zone_seller_ids)
        sellers_count == Len(zone_sellers)
    IN  [zone_id |-> zone.id,
         zone_name |-> zone.name,
         city_id |-> zone.city_id,
         city_name |-> NameById(cities, zone.city_id, "Desconocida"),
         total_shopkeepers |-> zone_shopkeepers_count,
         total_sellers |-> sellers_count,
         performance_score |-> PerformanceScore(zone_shopkeepers_count, sellers_count),
         market_penetration |-> MarketPenetration(zone_shopkeepers_count, sellers_count)]

CitySalesComparisonItem(city, zones, sellers, active_assignments) ==
    LET InCity(z) == z.city_id = city.id
        city_zones == SelectSeq(zones, InCity)
        city_zone_ids == {z.id : z \in Range(city_zones)}
        InCityZone(s) == s.zone_id \in city_zone_ids
        city_sellers == SelectSeq(sellers, InCityZone)
        city_seller_ids == {s.id : s \in Range(city_sellers)}
        city_shopkeepers_count == AssignedCount(active_assignments, city_seller_ids)
        sellers_count == Len(city_sellers)
    IN  [city_id |-> city.id,
         city_name |-> city.name,
         total_zones |-> Len(city_zones),
         total_shopkeepers |-> city_shopkeepers_count,
         total_sellers |-> sellers_count,
         performance_score |-> PerformanceScore(city_shopkeepers_count, sellers_count),
         market_penetration |-> MarketPenetration(city_shopkeepers_count, sellers_count)]

\* sorted(items, key=performance_score, reverse=True)[:3]
Top3(items) ==
    LET sorted == SortBy(items, [i \in 1..Len(items) |-> items[i].performance_score], TRUE)
    IN  SubSeq(sorted, 1, Min(3, Len(sorted)))

get_sales_comparison(db, comparison_type) ==
    IF comparison_type \notin allowed_types THEN [status |-> 400]
    ELSE
    LET cities == get_all_cities(db)
        zones == get_all_zones(db, None)
        sellers == get_all_sellers(db, None)
        assignments == get_all_assignments(db)
        active_assignments == SelectSeq(assignments, IsActiveAssignment)
        zones_data ==
            [i \in 1..Len(zones) |->
                SalesComparisonItem(zones[i], cities, sellers, active_assignments)]
        cities_data ==
            [i \in 1..Len(cities) |->
                CitySalesComparisonItem(cities[i], zones, sellers, active_assignments)]
    IN  [status |-> 200,
         comparison_type |-> comparison_type,
         zones |-> IF comparison_type = "cities" THEN <<>> ELSE zones_data,
         cities |-> IF comparison_type = "zones" THEN <<>> ELSE cities_data,
         top_zones |-> IF comparison_type = "cities" THEN <<>> ELSE Top3(zones_data),
         top_cities |-> IF comparison_type = "zones" THEN <<>> ELSE Top3(cities_data)]

\* Bounds of the sales-comparison data sets.  Zones 1 and 2 both belong to
\* city 1 and city 2 has no zone.  Zone z has groups[z].sellers sellers, each
\* with groups[z].load active assignment rows; the first seller of the zone
\* also has groups[z].extra[1] inactive rows and groups[z].extra[2] rows
\* without the is_active key.  Seller 1 has no zone and one active row.
CmpSellers == 5

CmpLoads == {0, 29, full_score_load + 1}

CmpExtras == {<<0, 0>>, <<1, 0>>, <<0, 1>>}

CmpGroup == [sellers : 0..CmpSellers, load : CmpLoads, extra : CmpExtras]

CmpGroups == [1..2 -> CmpGroup]

CmpZoneRows == [z \in 1..2 |-> [id |-> z, name |-> ZoneName(z), city_id |-> 1]]

\* The zone of the i-th seller (seller 1 has none).
CmpZoneOf(groups, i) ==
    IF i = 1 THEN None ELSE IF i <= 1 + groups[1].sellers THEN 1 ELSE 2

CmpIsFirstOfZone(groups, i) ==
    \/ i = 2 /\ groups[1].sellers > 0
    \/ i = 2 + groups[1].sellers /\ groups[2].sellers > 0

CmpSellerRows(groups) ==
    [i \in 1..(1 + groups[1].sellers + groups[2].sellers) |->
        [id |-> i, name |-> i, zone_id |-> CmpZoneOf(groups, i), total_shopkeepers |-> NoField]]

AssignmentRowsOf(seller_id, n_active, n_inactive, n_nokey) ==
    [j \in 1..n_active |-> [seller_id |-> seller_id, is_active |-> "true"]]
    \o [j \in 1..n_inactive |-> [seller_id |-> seller_id, is_active |-> "false"]]
    \o [j \in 1..n_nokey |-> [seller_id |-> seller_id, is_active |-> "absent"]]

RECURSIVE CmpAssignmentRows(_, _, _)
CmpAssignmentRows(groups, i, n) ==
    IF i > n THEN <<>>
    ELSE LET z == CmpZoneOf(groups, i)
             first == CmpIsFirstOfZone(groups, i)
         IN  (IF z = None THEN AssignmentRowsOf(i, 1, 0, 0)
              ELSE AssignmentRowsOf(i, groups[z].load,
                                    IF first THEN groups[z].extra[1] ELSE 0,
                                    IF first THEN groups[z].extra[2] ELSE 0))
             \o CmpAssignmentRows(groups, i + 1, n)

CmpDb(groups, up) ==
    [geo_up |-> up[1], user_up |-> up[2],
     cities |-> CityRows(2), zones |-> CmpZoneRows,
     sellers |-> CmpSellerRows(groups),
     shopkeepers |-> <<>>,
     assignments |-> CmpAssignmentRows(groups, 1, 1 + groups[1].sellers + groups[2].sellers)]

\* The calls get_sales_comparison makes: none for a comparison_type it
\* refuses.
ComparisonFetches(comparison_type) ==
    IF comparison_type \notin allowed_types THEN <<>>
    ELSE <<Call("get_all_cities", None), Call("get_all_zones", None),
           Call("get_all_sellers", None), Call("get_all_assignments", None)>>

SalesComparison ==
    /\ Admitted("sales-comparison")
    /\ \E groups \in CmpGroups, up \in {<<TRUE, TRUE>>, <<TRUE, FALSE>>},
          comparison_type \in allowed_types \cup {"sellers"} :
        /\ request' = [endpoint |-> "sales-comparison", groups |-> groups, up |-> up,
                       comparison_type |-> comparison_type]
        /\ response' = get_sales_comparison(CmpDb(groups, up), comparison_type)
        /\ fetches' = ComparisonFetches(comparison_type)
        /\ UNCHANGED <<rng, now, runs, token, paging, tasks>>

NextComparison == Arrive("sales-comparison", Roles) \/ SalesComparison \/ Reply

SpecComparison == Init /\ [][NextComparison]_vars

\* The zone items and the city items of the current sales comparison.
CmpItems ==
    IF request.endpoint = "sales-comparison" /\ response.status = 200
    THEN Range(response.zones) \cup Range(response.cities)
    ELSE {}

\* performance_score = min(100, avg/50*100) and market_penetration = avg, both
\* to two decimals, for avg = n_shop / n_sell.
ScoresMatch(item, n_shop, n_sell) ==
    LET p == item.performance_score
        m == item.market_penetration
        dm == m * n_sell - 100 * n_shop
        dp == p * n_sell - 200 * n_shop
    IN  /\ 2 * dm <= n_sell /\ -2 * dm <= n_sell
        /\ IF n_shop >= 50 * n_sell THEN p = 10000
           ELSE 2 * dp <= n_sell /\ -2 * dp <= n_sell

\* C4: in the sales comparison, for every zone and every city, with avg =
\* counted_shopkeepers / sellers (0 when there are no sellers),
\* performance_score = min(100, avg/50*100) and market_penetration = avg (to
\* two decimals); 5 sellers with 145 shopkeepers give 29.0 and 58.0, and
\* performance_score never exceeds 100.
C4_PerformanceScore ==
    \A item \in CmpItems :
        LET n_shop == item.total_shopkeepers
            n_sell == item.total_sellers
        IN  /\ n_sell = 0 => item.performance_score = 0 /\ item.market_penetration = 0
            /\ n_sell > 0 => ScoresMatch(item, n_shop, n_sell)
            /\ (n_sell = 5 /\ n_shop = 145) =>
                   item.market_penetration = 2900 /\ item.performance_score = 5800
            /\ item.performance_score <= 10000

\* One response with the documented case in one zone, a capped score in the
\* other zone, and a city that aggregates the sellers of both zones.
C4_Witness ==
    /\ request.endpoint = "sales-comparison" /\ response.status = 200
    /\ \E item \in Range(response.zones) :
        /\ item.total_sellers = 5 /\ item.total_shopkeepers = 145
        /\ item.market_penetration = 2900 /\ item.performance_score = 5800
    /\ \E item \in Range(response.zones) :
        /\ item.total_sellers > 0 /\ item.total_shopkeepers > 50 * item.total_sellers
        /\ item.performance_score = 10000
    /\ \E item \in Range(response.cities) :
        item.total_sellers > 5 /\ item.performance_score < 10000

\* The assignment rows of the sellers of the given zones whose is_active
\* field is true, in the data the current sales comparison was served.
TrueAssignmentRows(zone_ids) ==
    LET db == CmpDb(request.groups, request.up)
        sellers == get_all_sellers(db, None)
        seller_ids == {s.id : s \in {t \in Range(sellers) : t.zone_id \in zone_ids}}
        rows == get_all_assignments(db)
    IN  {i \in 1..Len(rows) : rows[i].seller_id \in seller_ids /\ rows[i].is_active = "true"}

\* C21: the shopkeeper total of every zone and of every city of the sales
\* comparison is the number of assignment rows of its sellers whose is_active
\* field is true; no other row is counted.
C21_OnlyTrueRowsCounted ==
    request.endpoint = "sales-comparison" /\ response.status = 200 =>
        /\ \A item \in Range(response.zones) :
            item.total_shopkeepers = Cardinality(TrueAssignmentRows({item.zone_id}))
        /\ \A item \in Range(response.cities) :
            item.total_shopkeepers =
                Cardinality(TrueAssignmentRows(
                    {z.id : z \in {y \in Range(CmpZoneRows) : y.city_id = item.city_id}}))

\* A row whose is_active is false is left out of the total of its zone.
C21_InactiveExcluded ==
    /\ request.endpoint = "sales-comparison" /\ response.status = 200
    /\ request.groups[1] = [sellers |-> 1, load |-> 29, extra |-> <<1, 0>>]
    /\ \E item \in Range(response.zones) : item.zone_id = 1 /\ item.total_shopkeepers = 29

(***************************************************************************)
(* GET /visits-compliance                                                  *)
(***************************************************************************)

\* MicroserviceClient.get_visits for one seller: the visits the collaborator
\* holds for that seller in the requested period (they fit in one page).
get_visits(db, seller_id) ==
    IF ~db.user_up THEN <<>>
    ELSE IF seller_id # None
         THEN LET OfSeller(v) == v.seller_id = seller_id IN SelectSeq(db.visits, OfSeller)
         ELSE db.visits

\* (mutant: cancelled visits are counted as programmed)
TotalWithCancelled(completed, pending, cancelled) == completed + pending + cancelled

\* total_programmed
TotalProgrammed(completed, pending, cancelled) == completed + pending

\* (mutant: every seller enters the average)
CountsAlways(total_programmed) == TRUE

\* "if total_programmed > 0: compliance_percentages.append(...)"
CountsTowardAverage(total_programmed) == total_programmed > 0

\* (mutant: the order parameter is ignored)
ReverseNever(sort_order) == FALSE

\* reverse_order
ReverseOrder(sort_order) == sort_order = "desc"

SellerComplianceItem(seller, zones, all_visits) ==
    LET OfSeller(v) == v.seller_id = seller.id
        seller_visits == SelectSeq(all_visits, OfSeller)
        IsCompleted(v) == v.status = "completed"
        IsPending(v) == v.status = "pending"
        IsCancelled(v) == v.status = "cancelled"
        completed == Len(SelectSeq(seller_visits, IsCompleted))
        pending == Len(SelectSeq(seller_visits, IsPending))
        cancelled == Len(SelectSeq(seller_visits, IsCancelled))
        total_programmed == TotalProgrammed(completed, pending, cancelled)
    IN  [seller_id |-> seller.id,
         seller_name |-> seller.name,
         zone_id |-> seller.zone_id,
         zone_name |-> NameById(zones, seller.zone_id, "Sin zona"),
         total_visits |-> total_programmed,
         completed_visits |-> completed,
         pending_visits |-> pending,
         cancelled_visits |-> cancelled,
         compliance_percentage |->
            IF total_programmed > 0 THEN Round2(completed * 100, total_programmed) ELSE 0]

\* sum(compliance_percentages) over the unrounded percentages
\* completed / total_programmed * 100, as an exact fraction <<num, den>>.
RECURSIVE SumPercentages(_)
SumPercentages(items) ==
    IF items = <<>> THEN <<0, 1>>
    ELSE LET rest == SumPercentages(Tail(items))
             item == Head(items)
             \* the seller's unrounded compliance_percentage
             pct == IF item.total_visits > 0
                    THEN <<100 * item.completed_visits, item.total_visits>>
                    ELSE <<0, 1>>
         IN  IF CountsTowardAverage(item.total_visits)
             THEN <<rest[1] * pct[2] + pct[1] * rest[2], rest[2] * pct[2]>>
             ELSE rest

SortedCompliance(sellers_compliance, sort_by, sort_order) ==
    LET n == Len(sellers_compliance)
        reverse_order == ReverseOrder(sort_order)
    IN  IF sort_by = "compliance_percentage"
        THEN SortBy(sellers_compliance,
                    [i \in 1..n |-> sellers_compliance[i].compliance_percentage], reverse_order)
        ELSE IF sort_by = "seller_name"
        THEN SortBy(sellers_compliance,
                    [i \in 1..n |-> sellers_compliance[i].seller_name], reverse_order)
        ELSE IF sort_by = "total_visits"
        THEN SortBy(sellers_compliance,
                    [i \in 1..n |-> sellers_compliance[i].total_visits], reverse_order)
        ELSE sellers_compliance

\* "if seller_id: sellers = [s for s in sellers if s["id"] == seller_id]"
SelectedSellers(fetched, seller_id) ==
    LET IsRequested(s) == s.id = seller_id
    IN  IF seller_id # None THEN SelectSeq(fetched, IsRequested) ELSE fetched

\* The report get_visits_compliance derives once everything is fetched.
ComplianceReport(sellers, zones, all_visits, q) ==
    LET items == [i \in 1..Len(sellers) |-> SellerComplianceItem(sellers[i], zones, all_visits)]
        Counted(item) == CountsTowardAverage(item.total_visits)
        n_counted == Len(SelectSeq(items, Counted))
        total == SumPercentages(items)
        n == Len(items)
    IN  [status |-> 200,
         sellers_compliance |-> SortedCompliance(items, q.sort_by, q.sort_order),
         summary |->
            [total_sellers |-> n,
             average_compliance |->
                IF n_counted > 0 THEN Round2(total[1], total[2] * n_counted) ELSE 0,
             total_visits |-> SumSeq([i \in 1..n |-> items[i].total_visits]),
             total_completed |-> SumSeq([i \in 1..n |-> items[i].completed_visits]),
             total_pending |-> SumSeq([i \in 1..n |-> items[i].pending_visits]),
             total_cancelled |-> SumSeq([i \in 1..n |-> items[i].cancelled_visits])]]

get_visits_compliance(db, q) ==
    IF q.role # "ADMIN" THEN [status |-> 403]
    ELSE
    LET zones == get_all_zones(db, None)
        sellers == SelectedSellers(get_all_sellers(db, q.zone_id), q.seller_id)
        all_visits == Concat([i \in 1..Len(sellers) |-> get_visits(db, sellers[i].id)])
    IN  ComplianceReport(sellers, zones, all_visits, q)

\* Bounds of the visits-compliance data sets: up to CplSellers sellers, each
\* with up to MaxVisits completed, pending and cancelled visits, or with the
\* documented 7 completed, 2 pending and 5 cancelled ones.
CplSellers == 2

MaxVisits == 1

CplProfiles == ((0..MaxVisits) \X (0..MaxVisits) \X (0..MaxVisits)) \cup {<<7, 2, 5>>}

CplRows == UNION {[1..n -> CplProfiles] : n \in 1..CplSellers}

\* Seller names, as their rank in alphabetical order: the fetch order is not
\* the order of the names, and sellers 1 and 3 bear the same name.
CplName(i) == IF i % 2 = 1 THEN 2 ELSE 1

CplSellerRows(rows) ==
    [i \in 1..Len(rows) |->
        [id |-> i, name |-> CplName(i), zone_id |-> IF i = 2 THEN None ELSE 1,
         total_shopkeepers |-> NoField]]

VisitRowsOf(seller_id, profile) ==
    [j \in 1..profile[1] |-> [seller_id |-> seller_id, status |-> "completed"]]
    \o [j \in 1..profile[2] |-> [seller_id |-> seller_id, status |-> "pending"]]
    \o [j \in 1..profile[3] |-> [seller_id |-> seller_id, status |-> "cancelled"]]

\* The visit log lists the sellers' visits from the last seller to the first.
CplDb(rows) ==
    [geo_up |-> TRUE, user_up |-> TRUE,
     cities |-> CityRows(1), zones |-> ZoneRows(1),
     sellers |-> CplSellerRows(rows),
     shopkeepers |-> <<>>, assignments |-> <<>>,
     visits |-> Concat([i \in 1..Len(rows) |->
                            VisitRowsOf(Len(rows) + 1 - i, rows[Len(rows) + 1 - i])])]

\* The period of a query, <<start_date, end_date>> in days: none, one that
\* ends after it starts, and one that ends before it starts.  The handlers
\* pass the period on to get_visits and read it nowhere else; the visits of
\* a data set are what the collaborator answers for the period asked.
NoPeriod == <<None, None>>

Periods == {NoPeriod, <<40, 50>>, <<50, 40>>}

\* The queries: every sort key (and an unknown one) in both orders without
\* filters, each filter with the default sort, each period, and callers who
\* are no ADMIN.
CplQueries ==
    [role : {"ADMIN"}, seller_id : {None}, zone_id : {None},
     sort_by : {"compliance_percentage", "seller_name", "total_visits", "zone_name"},
     sort_order : {"desc", "asc"}, period : {NoPeriod}]
    \cup [role : {"ADMIN"}, seller_id : {None, 1}, zone_id : {None, 1},
          sort_by : {"compliance_percentage"}, sort_order : {"desc"}, period : {NoPeriod}]
    \cup [role : {"ADMIN"}, seller_id : {None}, zone_id : {None},
          sort_by : {"compliance_percentage"}, sort_order : {"desc"}, period : Periods]
    \cup [role : RestrictedRoles \ {"ADMIN"}, seller_id : {None}, zone_id : {None},
          sort_by : {"compliance_percentage"}, sort_order : {"desc"}, period : {NoPeriod}]

\* The calls of the body of get_visits_compliance: sellers, zones, then the
\* visits of each seller kept.
ComplianceCalls(db, q) ==
    LET fetched == get_all_sellers(db, q.zone_id)
        IsRequested(s) == s.id = q.seller_id
        sellers == IF q.seller_id # None THEN SelectSeq(fetched, IsRequested) ELSE fetched
    IN  <<Call("get_all_sellers", q.zone_id), Call("get_all_zones", None)>>
        \o [i \in 1..Len(sellers) |-> Call("get_visits", <<sellers[i].id>> \o q.period)]

\* A handler that fetches before it looks at the role.
ComplianceFetchesBeforeCheck(db, q) == ComplianceCalls(db, q)

\* The calls get_visits_compliance makes: the role is checked first.
ComplianceFetches(db, q) ==
    IF q.role # "ADMIN" THEN <<>> ELSE ComplianceCalls(db, q)

VisitsCompliance ==
    /\ Admitted("visits-compliance")
    /\ \E rows \in CplRows, q \in CplQueries :
        /\ q.role = get_current_user(token).role
        /\ request' = [endpoint |-> "visits-compliance", rows |-> rows, q |-> q]
        /\ response' = get_visits_compliance(CplDb(rows), q)
        /\ fetches' = ComplianceFetches(CplDb(rows), q)
        /\ UNCHANGED <<rng, now, runs, token, paging, tasks>>

NextCompliance == Arrive("visits-compliance", RestrictedRoles) \/ VisitsCompliance \/ Reply

SpecCompliance == Init /\ [][NextCompliance]_vars

CplServed == request.endpoint = "visits-compliance" /\ response.status = 200

CplItems == IF CplServed THEN Range(response.sellers_compliance) ELSE {}

\* C7: for every seller of the visit-compliance report, completed, pending and
\* cancelled are the numbers of that seller's visits with that status,
\* total_visits = completed + pending, and compliance_percentage =
\* completed / total_visits * 100 to two decimals, or 0 when total_visits = 0
\* (7 completed, 2 pending, 5 cancelled: total_visits 9 and 77.78).
C7_ComplianceFigures ==
    \A item \in CplItems :
        LET profile == request.rows[item.seller_id]
            t == item.total_visits
            d == item.compliance_percentage * t - 10000 * item.completed_visits
        IN  /\ item.completed_visits = profile[1]
            /\ item.pending_visits = profile[2]
            /\ item.cancelled_visits = profile[3]
            /\ t = profile[1] + profile[2]
            /\ t = 0 => item.compliance_percentage = 0
            /\ t > 0 => 2 * d <= t /\ -2 * d <= t
            /\ profile = <<7, 2, 5>> => t = 9 /\ item.compliance_percentage = 7778

\* A report with the documented seller beside a seller whose only visit was
\* cancelled.
C7_Witness ==
    /\ \E item \in CplItems :
        /\ item.completed_visits = 7 /\ item.pending_visits = 2 /\ item.cancelled_visits = 5
        /\ item.total_visits = 9 /\ item.compliance_percentage = 7778
    /\ \E item \in CplItems :
        item.cancelled_visits = 1 /\ item.total_visits = 0 /\ item.compliance_percentage = 0

\* The sum of completed / (completed + pending) * 100 over the sellers in S,
\* as an exact fraction <<num, den>>.
RECURSIVE ExactSum(_, _)
ExactSum(rows, S) ==
    IF S = {} THEN <<0, 1>>
    ELSE LET i == CHOOSE j \in S : TRUE
             rest == ExactSum(rows, S \ {i})
             t == rows[i][1] + rows[i][2]
         IN  <<rest[1] * t + 100 * rows[i][1] * rest[2], rest[2] * t>>

\* C8: average_compliance is the arithmetic mean (to two decimals) of the
\* compliance percentages of exactly the sellers of the report whose
\* total_programmed > 0, and 0 when there is none.
C8_AverageCompliance ==
    CplServed =>
        LET rows == request.rows
            reported == {item.seller_id : item \in CplItems}
            programmed == {i \in reported : rows[i][1] + rows[i][2] > 0}
            k == Cardinality(programmed)
            sum == ExactSum(rows, programmed)
            avg == response.summary.average_compliance
            d == avg * sum[2] * k - 100 * sum[1]
        IN  /\ k = 0 => avg = 0
            /\ k > 0 => 2 * d <= sum[2] * k /\ -2 * d <= sum[2] * k

\* Two sellers, one without programmed visits: the average is the other
\* seller's percentage (50.0), not half of it.
C8_Witness ==
    /\ CplServed
    /\ Len(response.sellers_compliance) = 2
    /\ \E item \in CplItems : item.total_visits = 0
    /\ \E item \in CplItems : item.total_visits = 2 /\ item.compliance_percentage = 5000
    /\ response.summary.average_compliance = 5000

CplKey(item, sort_by) ==
    IF sort_by = "compliance_percentage" THEN item.compliance_percentage
    ELSE IF sort_by = "seller_name" THEN item.seller_name
    ELSE item.total_visits

\* C9: sellers_compliance is ordered by the requested key, descending for
\* sort_order 'desc' and ascending for 'asc'; with a sort_by that is none of
\* the three keys the list is in the order in which the sellers were fetched.
C9_SortOrder ==
    CplServed =>
        LET list == response.sellers_compliance
            q == request.q
            known == q.sort_by \in {"compliance_percentage", "seller_name", "total_visits"}
        IN  \A i \in 1..(Len(list) - 1) :
                /\ (known /\ q.sort_order = "desc") =>
                        CplKey(list[i], q.sort_by) >= CplKey(list[i + 1], q.sort_by)
                /\ (known /\ q.sort_order = "asc") =>
                        CplKey(list[i], q.sort_by) <= CplKey(list[i + 1], q.sort_by)
                /\ ~known => list[i].seller_id < list[i + 1].seller_id

\* A descending report whose order differs from the fetch order.
C9_Witness ==
    /\ CplServed
    /\ request.q.sort_order = "desc" /\ request.q.sort_by = "total_visits"
    /\ Len(response.sellers_compliance) = 2
    /\ response.sellers_compliance[1].seller_id = 2
    /\ response.sellers_compliance[1].total_visits > response.sellers_compliance[2].total_visits

(***************************************************************************)
(* GET /market-opportunities: population, popularity, missing products     *)
(***************************************************************************)

get_inventory_by_shopkeeper(db, shopkeeper_id) ==
    IF db.user_up /\ shopkeeper_id \in DOMAIN db.inventory
    THEN db.inventory[shopkeeper_id] ELSE <<>>

\* The product catalog, narrowed to a category when one is asked for.
get_all_products(db, category) ==
    IF ~db.user_up THEN <<>>
    ELSE IF category # NoText
         THEN LET InCategory(p) == p.category = category IN SelectSeq(db.products, InCategory)
         ELSE db.products

\* category.lower() in product_category.lower(), for the category names of
\* the data sets below.
LowerContains(category, product_category) ==
    \/ category = product_category
    \/ category = "aseo" /\ product_category = "Aseo"
    \/ category = "e" /\ product_category \in {"Aseo", "Bebidas"}

\* filtered_sellers
FilteredSellers(sellers, zones, zone_id, city_id) ==
    LET InCity(z) == city_id = None \/ z.city_id = city_id
        zone_ids_for_city == {z.id : z \in Range(SelectSeq(zones, InCity))}
        Kept(seller) ==
            /\ ~(zone_id # None /\ seller.zone_id # zone_id)
            /\ ~(city_id # None /\ seller.zone_id \notin zone_ids_for_city)
        filtered == SelectSeq(sellers, Kept)
    IN  IF filtered = <<>> /\ zone_id = None /\ city_id = None THEN sellers ELSE filtered

\* seller_ids
SellerIdsOf(filtered_sellers) == {s.id : s \in {t \in Range(filtered_sellers) : t.id # None}}

\* filtered_shopkeepers
FilteredShopkeepers(shopkeepers, seller_ids) ==
    LET OfSellers(k) == k.seller_id \in seller_ids IN SelectSeq(shopkeepers, OfSellers)

\* shop_zone_details[shop["id"]]["zone_id"]: seller_zone_map.get(seller_id),
\* the last seller with that id winning.
ShopZoneId(shop, filtered_sellers) ==
    LET OfShop(s) == s.id = shop.seller_id
        own == SelectSeq(filtered_sellers, OfShop)
    IN  IF own = <<>> THEN None ELSE own[Len(own)].zone_id

\* zone_map.get(zone_id, {}): the row of a zone, or a row without fields.
ZoneEntry(zones, zone_id) ==
    LET IsZone(z) == z.id = zone_id
        rows == SelectSeq(zones, IsZone)
    IN  IF rows = <<>> THEN [id |-> None, name |-> NoText, city_id |-> None]
        ELSE rows[Len(rows)]

\* shop_zone_details[shop["id"]]["zone_name"]
ShopZoneName(shop, filtered_sellers, zones) ==
    LET zone_id_for_shop == ShopZoneId(shop, filtered_sellers)
        zone_data == ZoneEntry(zones, zone_id_for_shop)
    IN  IF zone_id_for_shop = None THEN "Sin zona"
        ELSE IF zone_data.id = None THEN "Zona"
        ELSE zone_data.name

\* product_catalog.get(product_id, {}): the catalog row of a product, or a row
\* without fields.
CatalogEntry(products, product_id) ==
    LET IsProduct(p) == p.id = product_id
        rows == SelectSeq(products, IsProduct)
    IN  IF rows = <<>> THEN [id |-> None, name |-> NoText, category |-> NoText, price |-> 0]
        ELSE rows[Len(rows)]

\* item.get("product_id") or item.get("id")
ItemProductId(item) == IF item.product_id # None THEN item.product_id ELSE item.id

\* item.get("category") or item.get("product_category") or catalog category
ItemCategory(item, catalog_entry) ==
    IF item.category # NoText THEN item.category ELSE catalog_entry.category

\* "if category and product_category and category.lower() not in ...: continue"
PassesCategory(category, product_category) ==
    ~(category # NoText /\ product_category # NoText /\ ~LowerContains(category, product_category))

\* price, else unit_price, else the catalog price (0.0 counts as absent)
ItemUnitPrice(item, catalog_entry) ==
    IF item.price # 0 THEN item.price
    ELSE IF item.unit_price # 0 THEN item.unit_price
    ELSE catalog_entry.price

\* max_stock, defaulting to min_stock * 2 if min_stock else stock + 10
ItemMaxStock(item) ==
    IF item.max_stock # NoField THEN item.max_stock
    ELSE IF item.min_stock # 0 THEN item.min_stock * 2
    ELSE item.stock + 10

ItemUnitsNeeded(item) == Max(0, ItemMaxStock(item) - item.stock)

ItemLowStock(item) == item.min_stock # 0 /\ item.stock < item.min_stock

\* The inventory rows that reach product_stats, in the order of the two
\* nested loops: for every shopkeeper of the population, every item of its
\* inventory that names a product and passes the category filter.
StatEntries(filtered_shopkeepers, inventory_by_shop, products, category) ==
    LET OfShop(shop) ==
            LET items == IF shop.id \in DOMAIN inventory_by_shop
                         THEN inventory_by_shop[shop.id] ELSE <<>>
                Counted(item) ==
                    /\ ItemProductId(item) # None
                    /\ PassesCategory(category,
                           ItemCategory(item, CatalogEntry(products, ItemProductId(item))))
                kept == SelectSeq(items, Counted)
            IN  [j \in 1..Len(kept) |->
                    [shop_id |-> shop.id, product_id |-> ItemProductId(kept[j]),
                     item |-> kept[j]]]
    IN  Concat([i \in 1..Len(filtered_shopkeepers) |-> OfShop(filtered_shopkeepers[i])])

\* The keys of a dict in insertion order, for the keys in the order in which
\* the code sets them.
RECURSIVE FirstSeen(_, _)
FirstSeen(keys, seen) ==
    IF keys = <<>> THEN <<>>
    ELSE IF Head(keys) \in seen THEN FirstSeen(Tail(keys), seen)
    ELSE <<Head(keys)>> \o FirstSeen(Tail(keys), seen \cup {Head(keys)})

\* stats["shopkeepers_with"]: one for every inventory row of the product
ShopkeepersWith(product_entries) == Len(product_entries)

\* product_stats[product_id]
ProductStats(entries, products, product_id) ==
    LET OfProduct(e) == e.product_id = product_id
        mine == SelectSeq(entries, OfProduct)
        last == mine[Len(mine)].item
        Low(e) == ItemLowStock(e.item)
    IN  [category |-> ItemCategory(last, CatalogEntry(products, product_id)),
         shopkeepers_with |-> ShopkeepersWith(mine),
         total_stock |-> SumSeq([i \in 1..Len(mine) |-> mine[i].item.stock]),
         total_units_needed |-> SumSeq([i \in 1..Len(mine) |-> ItemUnitsNeeded(mine[i].item)]),
         total_price |->
            SumSeq([i \in 1..Len(mine) |->
                        ItemUnitPrice(mine[i].item, CatalogEntry(products, product_id))]),
         low_stock |-> Len(SelectSeq(mine, Low)),
         shopkeeper_ids |-> {mine[i].shop_id : i \in 1..Len(mine)}]

\* shop_products_map.get(shop_id, set())
ShopProducts(entries, shop_id) ==
    {entries[i].product_id : i \in {j \in 1..Len(entries) : entries[j].shop_id = shop_id}}

\* impacted_zones of a product
ImpactedZones(entries, filtered_shopkeepers, filtered_sellers, zones, product_id) ==
    {ShopZoneName(shop, filtered_sellers, zones) :
        shop \in {k \in Range(filtered_shopkeepers) :
                    k.id # None /\ product_id \notin ShopProducts(entries, k.id)}}

\* (mutant: the filter looks at the popularity rounded for the report)
PopularEnoughRounded(shopkeepers_with, total_shopkeepers, threshold) ==
    10 * Round2(shopkeepers_with, total_shopkeepers) >= threshold

\* not (popularity < threshold), for popularity = shopkeepers_with /
\* total_shopkeepers and the threshold in thousandths
PopularEnough(shopkeepers_with, total_shopkeepers, threshold) ==
    1000 * shopkeepers_with >= threshold * total_shopkeepers

\* (mutant: high as soon as missing_count reaches the minimum)
PriorityEager(shopkeepers_with, total_shopkeepers, missing_count, effective_min_missing) ==
    IF 10 * shopkeepers_with >= 8 * total_shopkeepers /\ missing_count >= effective_min_missing
    THEN "high"
    ELSE IF 100 * shopkeepers_with >= 65 * total_shopkeepers THEN "medium"
    ELSE "low"

\* priority, for popularity = shopkeepers_with / total_shopkeepers
Priority(shopkeepers_with, total_shopkeepers, missing_count, effective_min_missing) ==
    IF 10 * shopkeepers_with >= 8 * total_shopkeepers
       /\ missing_count >= effective_min_missing * 2
    THEN "high"
    ELSE IF 100 * shopkeepers_with >= 65 * total_shopkeepers THEN "medium"
    ELSE "low"

PriorityRank(priority) == IF priority = "high" THEN 2 ELSE IF priority = "medium" THEN 1 ELSE 0

\* One pass of the loop over product_stats: the item appended for the
\* product, or nothing.
MissingProductItems(product_id, entries, products, filtered_shopkeepers, filtered_sellers, zones, threshold, effective_min_missing) ==
    LET stats == ProductStats(entries, products, product_id)
        total_shopkeepers == Len(filtered_shopkeepers)
        with == stats.shopkeepers_with
        missing_count == total_shopkeepers - with
        impacted_zones ==
            ImpactedZones(entries, filtered_shopkeepers, filtered_sellers, zones, product_id)
    IN  IF ~PopularEnough(with, total_shopkeepers, threshold) THEN <<>>
        ELSE IF missing_count < effective_min_missing THEN <<>>
        ELSE IF impacted_zones = {} THEN <<>>
        ELSE <<[product_id |-> product_id,
                category |-> stats.category,
                global_popularity |-> Round2(with, total_shopkeepers),
                missing_shopkeepers |-> missing_count,
                impacted_zones |-> impacted_zones,
                \* missing_count * max(avg_units_needed, 1.0) * avg_price
                potential_monthly_revenue |->
                    Round2(missing_count * Max(stats.total_units_needed, with)
                               * stats.total_price, with * with),
                priority |-> Priority(with, total_shopkeepers, missing_count,
                                      effective_min_missing),
                avg_unit_price |-> Round2(stats.total_price, with)]>>

\* missing_products.sort(key=(rank, global_popularity, revenue), reverse=True):
\* a stable descending sort on a tuple is the stable descending sorts on its
\* components, the last component first.
\* A ranking that leaves the priority out of the sort key.
SortMissingByPopularity(items) ==
    LET by_revenue ==
            SortBy(items, [i \in 1..Len(items) |-> items[i].potential_monthly_revenue], TRUE)
    IN  SortBy(by_revenue, [i \in 1..Len(items) |-> by_revenue[i].global_popularity], TRUE)

SortMissing(items) ==
    LET by_revenue ==
            SortBy(items, [i \in 1..Len(items) |-> items[i].potential_monthly_revenue], TRUE)
        by_popularity ==
            SortBy(by_revenue,
                   [i \in 1..Len(items) |-> by_revenue[i].global_popularity], TRUE)
    IN  SortBy(by_popularity,
               [i \in 1..Len(items) |-> PriorityRank(by_popularity[i].priority)], TRUE)

\* One pass of the loop over zone_groups: the insight of the zone group_zone_id,
\* whose shopkeepers are shop_ids.  Every inventory row of these shopkeepers
\* that names a product counts, whatever its category.
ZoneDemandInsight(group_zone_id, shop_ids, inventory_by_shop, zones, cities) ==
    LET Named(item) == ItemProductId(item) # None
        rows ==
            Concat([i \in 1..Len(shop_ids) |->
                        IF shop_ids[i] \in DOMAIN inventory_by_shop
                        THEN SelectSeq(inventory_by_shop[shop_ids[i]], Named) ELSE <<>>])
        product_ids == FirstSeen([i \in 1..Len(rows) |-> ItemProductId(rows[i])], {})
        Stats(pid) ==
            LET OfProduct(item) == ItemProductId(item) = pid
                mine == SelectSeq(rows, OfProduct)
                Low(item) == ItemLowStock(item)
            IN  [product_id |-> pid,
                 units_needed |-> SumSeq([i \in 1..Len(mine) |-> ItemUnitsNeeded(mine[i])]),
                 low_stock |-> Len(SelectSeq(mine, Low)),
                 shopkeepers |-> Len(mine)]
        zone_product_stats == [i \in 1..Len(product_ids) |-> Stats(product_ids[i])]
        total_gap == SumSeq([i \in 1..Len(rows) |-> ItemUnitsNeeded(rows[i])])
        sorted ==
            SortBy(zone_product_stats,
                   [i \in 1..Len(product_ids) |-> zone_product_stats[i].units_needed], TRUE)
        top_demands == SubSeq(sorted, 1, Min(3, Len(sorted)))
        zone_products ==
            [i \in 1..Len(top_demands) |->
                [product_id |-> top_demands[i].product_id,
                 growth_percentage |->
                    Round2(Min(100 * top_demands[i].shopkeepers, 100 * top_demands[i].low_stock),
                           top_demands[i].shopkeepers),
                 stock_gap |-> Round2(top_demands[i].units_needed, top_demands[i].shopkeepers)]]
        zone_data == ZoneEntry(zones, group_zone_id)
    IN  [zone_id |-> group_zone_id,
         zone_name |-> IF zone_data.id = None THEN "Sin zona" ELSE zone_data.name,
         city_name |->
            IF group_zone_id # None /\ zone_data.city_id # None
            THEN NameById(cities, zone_data.city_id, None) ELSE None,
         top_demands |-> zone_products,
         avg_stock_gap |-> Round2(total_gap, Len(shop_ids)),
         demand_variation |->
            IF zone_products # <<>>
            THEN RoundDiv(SumSeq([i \in 1..Len(zone_products) |->
                                      zone_products[i].growth_percentage]),
                          Len(zone_products))
            ELSE 0,
         shopkeepers_covered |-> Len(shop_ids),
         unmet_demand |-> 100 * total_gap]

\* zone_trends: one insight per zone of the population, the zones in the
\* order in which the population meets them, then sorted by unmet demand.
ZoneTrends(filtered_shopkeepers, filtered_sellers, inventory_by_shop, zones, cities) ==
    LET n == Len(filtered_shopkeepers)
        zone_of == [i \in 1..n |-> ShopZoneId(filtered_shopkeepers[i], filtered_sellers)]
        group_ids == FirstSeen(zone_of, {})
        ShopIds(zone_id) ==
            LET positions == SelectSeq([i \in 1..n |-> i], LAMBDA i : zone_of[i] = zone_id)
            IN  [k \in 1..Len(positions) |-> filtered_shopkeepers[positions[k]].id]
        insights ==
            [g \in 1..Len(group_ids) |->
                ZoneDemandInsight(group_ids[g], ShopIds(group_ids[g]), inventory_by_shop,
                                  zones, cities)]
    IN  SortBy(insights, [g \in 1..Len(group_ids) |-> insights[g].unmet_demand], TRUE)

\* Text is a sequence of characters.  Digits[d + 1] is the character of the
\* digit d.
Digits == <<"0", "1", "2", "3", "4", "5", "6", "7", "8", "9">>

DigitValue(c) == CHOOSE d \in 0..9 : Digits[d + 1] = c

\* ord(c), for the characters of a week label
Ord(c) == IF c = "-" THEN 45 ELSE IF c = "W" THEN 87 ELSE 48 + DigitValue(c)

\* str(n) and f"{n}", n >= 0: the decimal digits, without padding
RECURSIVE Str(_)
Str(n) == IF n < 10 THEN <<Digits[n + 1]>> ELSE Str(n \div 10) \o <<Digits[(n % 10) + 1]>>

\* f"{n:02d}"
Str02(n) == IF n < 10 THEN <<"0">> \o Str(n) ELSE Str(n)

\* int(text), for a text of digits
RECURSIVE int(_)
int(text) ==
    IF text = <<>> THEN 0
    ELSE 10 * int(SubSeq(text, 1, Len(text) - 1)) + DigitValue(text[Len(text)])

\* a < b on str: the first differing character decides, and a proper prefix
\* comes first
TextLess(a, b) ==
    \E i \in 1..(Min(Len(a), Len(b)) + 1) :
        /\ \A k \in 1..(i - 1) : a[k] = b[k]
        /\ \/ i > Len(a) /\ i <= Len(b)
           \/ i <= Len(a) /\ i <= Len(b) /\ Ord(a[i]) < Ord(b[i])

\* A date is its proleptic Gregorian ordinal (date.toordinal()).  IsoYears
\* lists the ISO years the visit logs touch: the ordinal of the Monday of week
\* 1 and the number of weeks.
IsoYears ==
    <<[year |-> 999, first_day |-> 364512, weeks |-> 52],
      [year |-> 1000, first_day |-> 364876, weeks |-> 52],
      [year |-> 2023, first_day |-> 738522, weeks |-> 52],
      [year |-> 2024, first_day |-> 738886, weeks |-> 52]>>

\* isocalendar() of a day, as <<year, week>>
IsoCalendar(day) ==
    LET y == CHOOSE r \in Range(IsoYears) :
                r.first_day <= day /\ day < r.first_day + 7 * r.weeks
    IN  <<y.year, ((day - y.first_day) \div 7) + 1>>

\* datetime.fromisocalendar(year, week, 1)
FromIsoCalendar(year, week) ==
    LET y == CHOOSE r \in Range(IsoYears) : r.year = year
    IN  y.first_day + 7 * (week - 1)

\* f"{iso.year}-W{iso.week:02d}"
WeekLabel(iso) == Str(iso[1]) \o <<"-", "W">> \o Str02(iso[2])

\* label.split("-W"), for a label with one "-W"
SplitLabel(label) ==
    LET at == CHOOSE i \in 1..(Len(label) - 1) : label[i] = "-" /\ label[i + 1] = "W"
    IN  <<SubSeq(label, 1, at - 1), SubSeq(label, at + 2, Len(label))>>

\* sorted(demand_timeline.items()): the dict's keys are distinct, so the
\* points come out in the order of their labels as str.
SortedByLabel(points) ==
    LET n == Len(points)
        order ==
            [p \in 1..n |->
                CHOOSE i \in 1..n :
                    Cardinality({j \in 1..n : TextLess(points[j].label, points[i].label)})
                        = p - 1]
    IN  [p \in 1..n |-> points[order[p]]]

\* all_visits: the visits of every seller of seller_ids, a set, each seller
\* asked once.  The request carries no start_date and no end_date.
AllVisits(db, seller_ids) ==
    LET ids == [k \in 1..Cardinality(seller_ids) |->
                    CHOOSE x \in seller_ids :
                        Cardinality({y \in seller_ids : y < x}) = k - 1]
    IN  Concat([k \in 1..Len(ids) |-> get_visits(db, ids[k])])

\* timeline_points: one point per week label of the visits that bear a
\* scheduled date, sorted by label.
TimelinePoints(all_visits) ==
    LET Dated(v) == v.scheduled_date # None
        dated == SelectSeq(all_visits, Dated)
        label_of == [i \in 1..Len(dated) |-> WeekLabel(IsoCalendar(dated[i].scheduled_date))]
        labels == FirstSeen(label_of, {})
        Total(label) == Cardinality({i \in 1..Len(dated) : label_of[i] = label})
        Count(label, status) ==
            Cardinality({i \in 1..Len(dated) :
                            label_of[i] = label /\ dated[i].status = status})
        points ==
            [k \in 1..Len(labels) |->
                [label |-> labels[k],
                 total_demand |-> Total(labels[k]),
                 completed |-> Count(labels[k], "completed"),
                 pending |-> Count(labels[k], "pending")]]
    IN  SortedByLabel(points)

\* forecast_points.  The label of the last point always parses, so base_date
\* never falls back to utcnow().  expected is round(avg_demand * (1 + growth_factor)) on the
\* exact quotient sum * (previous + growth * offset) / (len * previous).
ForecastPoints(timeline_points) ==
    IF timeline_points = <<>> THEN <<>>
    ELSE
    LET n == Len(timeline_points)
        demands == [i \in 1..n |-> timeline_points[i].total_demand]
        previous == IF n >= 2 THEN Max(demands[n - 1], 1) ELSE 1
        \* max(0.0, momentum) * previous
        growth == IF n >= 2 THEN Max(0, demands[n] - demands[n - 1]) ELSE 0
        last_label == SplitLabel(timeline_points[n].label)
        base_date == FromIsoCalendar(int(last_label[1]), int(last_label[2]))
    IN  [offset \in 1..2 |->
            [label |-> WeekLabel(IsoCalendar(base_date + 7 * offset)),
             expected_demand |->
                Max(1, RoundDiv(SumSeq(demands) * (previous + growth * offset),
                                n * previous))]]

PriorityLevel(priority) ==
    IF priority = "high" THEN "Alta" ELSE IF priority = "medium" THEN "Media" ELSE "Baja"

\* The supply items of the products given.  An id is kept as <<prefix, key>>
\* and a message as the values it quotes.
SupplyItems(products) ==
    [i \in 1..Len(products) |->
        [id |-> <<"PROD", products[i].product_id>>,
         type |-> "supply",
         message |-> <<products[i].product_id, Cardinality(products[i].impacted_zones)>>,
         impact |-> PriorityLevel(products[i].priority),
         urgency |-> PriorityLevel(products[i].priority)]]

\* The items that follow the supply items: a campaign for the first zone and
\* an alert for the first forecast point.  The zone key None stands for the
\* text "NA".
CampaignAndAlert(zone_trends, forecast) ==
    (IF zone_trends = <<>> THEN <<>>
     ELSE <<[id |-> <<"ZONE", zone_trends[1].zone_id>>,
             type |-> "campaign",
             message |-> <<zone_trends[1].zone_name>>,
             impact |-> IF zone_trends[1].avg_stock_gap > 2000 THEN "Alta" ELSE "Media",
             urgency |-> IF zone_trends[1].avg_stock_gap > 1000 THEN "Media" ELSE "Baja"]>>)
    \o (IF forecast = <<>> THEN <<>>
        ELSE <<[id |-> <<"TREND", "FORECAST">>,
                type |-> "alert",
                message |-> <<forecast[1].expected_demand, forecast[1].label>>,
                impact |-> "Media", urgency |-> "Media"]>>)

\* (mutant: a supply item for every missing product)
RecommendationsUncappedSupply(missing_products, zone_trends, forecast) ==
    LET all == SupplyItems(missing_products) \o CampaignAndAlert(zone_trends, forecast)
    IN  SubSeq(all, 1, Min(5, Len(all)))

\* recommendations: a supply item for each of the first three missing
\* products, then the campaign, then the alert; at most five.
Recommendations(missing_products, zone_trends, forecast) ==
    LET all ==
            SupplyItems(SubSeq(missing_products, 1, Min(3, Len(missing_products))))
            \o CampaignAndAlert(zone_trends, forecast)
    IN  SubSeq(all, 1, Min(5, Len(all)))

\* (mutant: only an empty seller population ends the analysis early)
PopulationIsEmptySellersOnly(seller_ids, filtered_shopkeepers) == seller_ids = {}

\* if not seller_ids: return ...; if not filtered_shopkeepers: return ...
PopulationIsEmpty(seller_ids, filtered_shopkeepers) ==
    seller_ids = {} \/ filtered_shopkeepers = <<>>

EmptyMarketResponse ==
    [status |-> 200,
     summary |-> [total_products_missing |-> 0, total_impacted_shopkeepers |-> 0,
                  estimated_monthly_revenue |-> 0],
     missing_popular_products |-> <<>>,
     zone_trends |-> <<>>,
     demand_trends |-> [timeline |-> <<>>, forecast |-> <<>>],
     recommendations |-> <<>>]

get_market_opportunities(db, q) ==
    IF q.role # "ADMIN" THEN [status |-> 403]
    ELSE
    LET threshold == Max(0, Min(q.popularity_threshold, 1000))
        effective_min_missing == Max(1, q.min_missing_shopkeepers)
        zones == get_all_zones(db, None)
        sellers == get_all_sellers(db, None)
        shopkeepers == get_all_shopkeepers(db, None)
        products == get_all_products(db, q.category)
        filtered_sellers == FilteredSellers(sellers, zones, q.zone_id, q.city_id)
        seller_ids == SellerIdsOf(filtered_sellers)
        filtered_shopkeepers == FilteredShopkeepers(shopkeepers, seller_ids)
        inventory_by_shop ==
            [id \in {k.id : k \in Range(filtered_shopkeepers)} \ {None} |->
                get_inventory_by_shopkeeper(db, id)]
        entries == StatEntries(filtered_shopkeepers, inventory_by_shop, products, q.category)
        product_ids == FirstSeen([i \in 1..Len(entries) |-> entries[i].product_id], {})
        missing_products ==
            SortMissing(Concat([i \in 1..Len(product_ids) |->
                MissingProductItems(product_ids[i], entries, products, filtered_shopkeepers,
                                    filtered_sellers, zones, threshold,
                                    effective_min_missing)]))
        n == Len(missing_products)
        zone_trends ==
            ZoneTrends(filtered_shopkeepers, filtered_sellers, inventory_by_shop, zones,
                       get_all_cities(db))
        all_visits == AllVisits(db, seller_ids)
        timeline_points == TimelinePoints(all_visits)
        forecast_points == ForecastPoints(timeline_points)
    IN  IF PopulationIsEmpty(seller_ids, filtered_shopkeepers) THEN EmptyMarketResponse
        ELSE [status |-> 200,
              summary |->
                [total_products_missing |-> n,
                 total_impacted_shopkeepers |->
                    SumSeq([i \in 1..n |-> missing_products[i].missing_shopkeepers]),
                 estimated_monthly_revenue |->
                    SumSeq([i \in 1..n |-> missing_products[i].potential_monthly_revenue])],
              missing_popular_products |-> missing_products,
              zone_trends |-> zone_trends,
              demand_trends |-> [timeline |-> timeline_points, forecast |-> forecast_points],
              recommendations |-> Recommendations(missing_products, zone_trends,
                                                  forecast_points)]

\* Bound of the market data sets: up to MaxShops identified shopkeepers.
MaxShops == 10

\* Product 1 is a complete inventory row; product 2 is a row that names the
\* product by "id" only and leaves category and price to the catalog.
ItemA ==
    [product_id |-> 1, id |-> None, category |-> "Aseo", price |-> 100, unit_price |-> 0,
     stock |-> 2, min_stock |-> 5, max_stock |-> 10]

ItemB ==
    [product_id |-> None, id |-> 2, category |-> NoText, price |-> 0, unit_price |-> 0,
     stock |-> 5, min_stock |-> 0, max_stock |-> NoField]

\* Products 3 and 4, of one category, differ in price and in need.
ItemC ==
    [product_id |-> 3, id |-> None, category |-> "Granos", price |-> 50, unit_price |-> 0,
     stock |-> 1, min_stock |-> 2, max_stock |-> 4]

ItemD ==
    [product_id |-> 4, id |-> None, category |-> "Granos", price |-> 0, unit_price |-> 70,
     stock |-> 0, min_stock |-> 0, max_stock |-> 6]

\* Three sellers: in zone 1 (city 1), in zone 2 (city 2), and without zone.
MktSellerRows ==
    [i \in 1..3 |->
        [id |-> i, name |-> i, zone_id |-> IF i = 3 THEN None ELSE i,
         total_shopkeepers |-> NoField]]

\* Shopkeepers 1..n, dealt to the sellers in turn; then, if anon, a row of
\* seller 1 without id; then a shopkeeper that no seller serves.
MktShopkeeperRows(n, anon) ==
    [j \in 1..n |-> [id |-> j, seller_id |-> ((j - 1) % 3) + 1]]
    \o (IF anon THEN <<[id |-> None, seller_id |-> 1]>> ELSE <<>>)
    \o <<[id |-> n + 1, seller_id |-> None]>>

\* The first kA shopkeepers hold product 1 (shopkeeper 1 lists it twice if
\* dup), the last kB hold product 2; if wide, shopkeepers 1 and 2 hold
\* product 3 and shopkeeper 2 holds product 4.
MktInventory(n, kA, kB, dup, wide) ==
    [j \in 1..(n + 1) |->
        (IF j <= kA THEN <<ItemA>> ELSE <<>>)
        \o (IF j > n - kB /\ j <= n THEN <<ItemB>> ELSE <<>>)
        \o (IF dup /\ j = 1 /\ kA >= 1 THEN <<ItemA>> ELSE <<>>)
        \o (IF wide /\ j <= 2 THEN <<ItemC>> ELSE <<>>)
        \o (IF wide /\ j = 2 THEN <<ItemD>> ELSE <<>>)]

\* The visit log: n visits, dealt to the sellers in turn from seller 2 on, in
\* the last two weeks of 2023 or the first of 2024 (from visit 7 on, in the
\* last week of 2023, so that the longer logs fall in their last week); visit
\* 5 bears no readable date.  If old, visit 1 is of 0999-12-25 and visit 2
\* of 1000-01-06.
MktVisitRows(n, old) ==
    [j \in 1..n |->
        [seller_id |-> (j % 3) + 1,
         status |-> IF j % 2 = 1 THEN "completed"
                    ELSE IF j % 4 = 2 THEN "pending" ELSE "cancelled",
         scheduled_date |->
            IF j = 5 THEN None
            ELSE IF old /\ j = 1 THEN FromIsoCalendar(999, 52) + 2
            ELSE IF old /\ j = 2 THEN FromIsoCalendar(1000, 2)
            ELSE IF j >= 7 THEN FromIsoCalendar(2023, 52) + (j % 7)
            ELSE FromIsoCalendar(2023, 1) + 7 * (50 + ((j + 1) % 3)) + (j % 7)]]

\* The broader inventories come with the shopkeeper row without id, the old
\* visits with the duplicate inventory row.
MarketDb(n, kA, kB, dup, anon) ==
    [geo_up |-> TRUE, user_up |-> TRUE,
     cities |-> CityRows(2), zones |-> ZoneRows(2),
     sellers |-> MktSellerRows,
     shopkeepers |-> MktShopkeeperRows(n, anon),
     assignments |-> <<>>,
     products |-> <<[id |-> 2, name |-> "Cafe", category |-> "Bebidas", price |-> 45]>>,
     inventory |-> MktInventory(n, kA, kB, dup, anon),
     visits |-> MktVisitRows(n, dup)]

\* The queries: thresholds in thousandths (on, between and off the
\* classification limits) without filter, two thresholds with each filter
\* alone, a caller who is no ADMIN, and a zone in which no seller works.
MktFilters ==
    {[zone_id |-> 1, city_id |-> None, category |-> NoText],
     [zone_id |-> None, city_id |-> 2, category |-> NoText],
     [zone_id |-> None, city_id |-> None, category |-> "Bebidas"]}

MktNoFilter == [zone_id |-> None, city_id |-> None, category |-> NoText]

MktQuery(role, f, t, mm) ==
    [role |-> role, zone_id |-> f.zone_id, city_id |-> f.city_id, category |-> f.category,
     popularity_threshold |-> t, min_missing_shopkeepers |-> mm, period |-> NoPeriod]

MktQueries ==
    {MktQuery("ADMIN", MktNoFilter, t, mm) : t \in {0, 333, 600, 667, 800}, mm \in {1, 2}}
    \cup {MktQuery("ADMIN", f, t, mm) : f \in MktFilters, t \in {0, 600}, mm \in {1, 2}}
    \cup {MktQuery(role, MktNoFilter, 600, 3) : role \in RestrictedRoles \ {"ADMIN"}}
    \cup {MktQuery("ADMIN", [zone_id |-> 3, city_id |-> None, category |-> NoText], 600, 1)}
    \cup {[MktQuery("ADMIN", MktNoFilter, 600, 2) EXCEPT !.period = p] : p \in Periods}

\* The calls of the body of get_market_opportunities: the five gathered
\* snapshots, then, unless the population is empty, the inventory of each
\* shopkeeper that bears an id and the visits of each seller.
MarketCalls(db, q) ==
    LET zones == get_all_zones(db, None)
        sellers == get_all_sellers(db, None)
        shopkeepers == get_all_shopkeepers(db, None)
        seller_ids == SellerIdsOf(FilteredSellers(sellers, zones, q.zone_id, q.city_id))
        filtered_shopkeepers == FilteredShopkeepers(shopkeepers, seller_ids)
        HasId(shop) == shop.id # None
        with_id == SelectSeq(filtered_shopkeepers, HasId)
        ids == [k \in 1..Cardinality(seller_ids) |->
                    CHOOSE x \in seller_ids :
                        Cardinality({y \in seller_ids : y < x}) = k - 1]
    IN  <<Call("get_all_cities", None), Call("get_all_zones", None),
          Call("get_all_sellers", None), Call("get_all_shopkeepers", None),
          Call("get_all_products", q.category)>>
        \o (IF PopulationIsEmpty(seller_ids, filtered_shopkeepers) THEN <<>>
            ELSE [i \in 1..Len(with_id) |->
                      Call("get_inventory_by_shopkeeper", with_id[i].id)]
                 \o [k \in 1..Len(ids) |-> Call("get_visits", <<ids[k]>> \o q.period)])

\* A handler that fetches before it looks at the role.
MarketFetchesBeforeCheck(db, q) == MarketCalls(db, q)

\* The calls get_market_opportunities makes: the role is checked first.
MarketFetches(db, q) ==
    IF q.role # "ADMIN" THEN <<>> ELSE MarketCalls(db, q)

MarketOpportunities ==
    /\ Admitted("market-opportunities")
    /\ \E n \in 1..MaxShops, dup \in BOOLEAN, anon \in BOOLEAN, q \in MktQueries :
        \E kA \in 0..n, kB \in {0, n - 1} :
            /\ q.role = get_current_user(token).role
            /\ request' = [endpoint |-> "market-opportunities", n |-> n, kA |-> kA, kB |-> kB,
                           dup |-> dup, anon |-> anon, q |-> q]
            /\ response' = get_market_opportunities(MarketDb(n, kA, kB, dup, anon), q)
            /\ fetches' = MarketFetches(MarketDb(n, kA, kB, dup, anon), q)
            /\ UNCHANGED <<rng, now, runs, token, paging, tasks>>

NextMarket == Arrive("market-opportunities", RestrictedRoles) \/ MarketOpportunities \/ Reply

SpecMarket == Init /\ [][NextMarket]_vars

\* The two endpoints reserved to the role ADMIN, side by side.
NextRestricted ==
    \/ Arrive("market-opportunities", RestrictedRoles)
    \/ MarketOpportunities
    \/ Arrive("visits-compliance", RestrictedRoles)
    \/ VisitsCompliance
    \/ Reply

SpecRestricted == Init /\ [][NextRestricted]_vars

MktServed == request.endpoint = "market-opportunities" /\ response.status = 200

MktItems == IF MktServed THEN Range(response.missing_popular_products) ELSE {}

\* The shopkeeper population of the request: the positions in the shopkeeper
\* directory of the rows whose seller the zone and city filters select.
MktPopulation(db, q) ==
    LET selected ==
            {s \in Range(db.sellers) :
                /\ q.zone_id = None \/ s.zone_id = q.zone_id
                /\ q.city_id = None
                   \/ \E z \in Range(db.zones) : z.id = s.zone_id /\ z.city_id = q.city_id}
    IN  {i \in 1..Len(db.shopkeepers) : \E s \in selected : s.id = db.shopkeepers[i].seller_id}

\* The inventory rows of a product in the population, one pair
\* <<shopkeeper position, row>> each.
MktProductRows(db, population, product_id) ==
    {ij \in population \X (1..5) :
        LET shop_id == db.shopkeepers[ij[1]].id
            rows == IF shop_id = None THEN <<>> ELSE db.inventory[shop_id]
        IN  /\ ij[2] <= Len(rows)
            /\ product_id \in {rows[ij[2]].product_id, rows[ij[2]].id} \ {None}}

C6_PriorityClassification ==
    MktServed =>
        LET q == request.q
            db == MarketDb(request.n, request.kA, request.kB, request.dup, request.anon)
            population == MktPopulation(db, q)
        IN  \A item \in MktItems :
                LET with == Cardinality(MktProductRows(db, population, item.product_id))
                    total == Cardinality(population)
                IN  item.priority =
                        IF 10 * with >= 8 * total
                           /\ item.missing_shopkeepers >= 2 * q.min_missing_shopkeepers
                        THEN "high"
                        ELSE IF 100 * with >= 65 * total THEN "medium"
                        ELSE "low"

\* Popularity exactly 0.8 (8 of 10) with missing_count = 2 * the minimum is
\* "high", next to a product of popularity 0.9 that misses at one shopkeeper
\* only and is "medium".
C6_Witness ==
    /\ MktServed
    /\ request.n = 10 /\ request.kA = 8 /\ ~request.dup /\ ~request.anon
    /\ request.q.min_missing_shopkeepers = 1
    /\ \E item \in MktItems :
        /\ item.product_id = 1 /\ item.priority = "high"
        /\ item.global_popularity = 80 /\ item.missing_shopkeepers = 2
    /\ \E item \in MktItems :
        /\ item.product_id = 2 /\ item.priority = "medium"
        /\ item.global_popularity = 90 /\ item.missing_shopkeepers = 1

\* The sellers the zone and city filters of the request select, and the
\* shopkeeper rows these sellers serve.
MktSelectedSellerIds(db, q) ==
    {s.id : s \in {t \in Range(db.sellers) :
                    /\ t.id # None
                    /\ q.zone_id = None \/ t.zone_id = q.zone_id
                    /\ q.city_id = None
                       \/ \E z \in Range(db.zones) :
                            z.id = t.zone_id /\ z.city_id = q.city_id}}

MktServedShopkeepers(db, q) ==
    {i \in 1..Len(db.shopkeepers) : db.shopkeepers[i].seller_id \in MktSelectedSellerIds(db, q)}

\* C12: an ADMIN request whose filtered seller population or filtered
\* shopkeeper population is empty is answered without error by a summary of
\* zeros and empty missing_popular_products, zone_trends, timeline, forecast
\* and recommendations.
C12_EmptyPopulationExit ==
    (request.endpoint = "market-opportunities" /\ request.q.role = "ADMIN") =>
        LET db == MarketDb(request.n, request.kA, request.kB, request.dup, request.anon)
        IN  (MktSelectedSellerIds(db, request.q) = {} \/ MktServedShopkeepers(db, request.q) = {})
            => /\ response.status = 200
               /\ response.summary.total_products_missing = 0
               /\ response.summary.total_impacted_shopkeepers = 0
               /\ response.summary.estimated_monthly_revenue = 0
               /\ response.missing_popular_products = <<>>
               /\ response.zone_trends = <<>>
               /\ response.demand_trends.timeline = <<>>
               /\ response.demand_trends.forecast = <<>>
               /\ response.recommendations = <<>>

\* Zone 2 is asked for while its seller serves no shopkeeper, although the
\* seller has a visit on record and shopkeeper 1, of another zone, holds stock.
C12_Witness ==
    /\ request.endpoint = "market-opportunities" /\ request.q.role = "ADMIN"
    /\ request.q.city_id = 2 /\ request.n = 1 /\ request.kA = 1
    /\ response.status = 200
    /\ response.demand_trends.timeline = <<>>
    /\ response.recommendations = <<>>

\* No seller works in the zone asked for.
C12_WitnessNoSeller ==
    /\ request.endpoint = "market-opportunities" /\ request.q.role = "ADMIN"
    /\ request.q.zone_id = 3
    /\ response.status = 200
    /\ response.zone_trends = <<>>

\* C13: the recommendations are, in this order, a supply item for each of
\* the first three ranked missing products, then a campaign item for a zone
\* of highest unmet_demand if there is a zone, then an alert item about the
\* first forecast point if there is one, and nothing else; never more than 5.
C13_RecommendationOrder ==
    MktServed =>
        LET recs == response.recommendations
            missing == response.missing_popular_products
            zone_trends == response.zone_trends
            forecast == response.demand_trends.forecast
            k == Min(3, Len(missing))
            c == IF zone_trends = <<>> THEN 0 ELSE 1
            a == IF forecast = <<>> THEN 0 ELSE 1
        IN  /\ Len(recs) = k + c + a
            /\ Len(recs) <= 5
            /\ \A i \in 1..k :
                /\ recs[i].type = "supply"
                /\ recs[i].id = <<"PROD", missing[i].product_id>>
            /\ c = 1 =>
                /\ recs[k + 1].type = "campaign"
                /\ \E z \in Range(zone_trends) :
                    /\ recs[k + 1].id = <<"ZONE", z.zone_id>>
                    /\ \A y \in Range(zone_trends) : y.unmet_demand <= z.unmet_demand
            /\ a = 1 =>
                /\ recs[k + c + 1].type = "alert"
                /\ recs[k + c + 1].message =
                    <<forecast[1].expected_demand, forecast[1].label>>

\* Four products are missing, three of them get a supply item, and the
\* campaign and the alert complete the five.
C13_Witness ==
    /\ MktServed
    /\ Len(response.missing_popular_products) = 4
    /\ Len(response.zone_trends) >= 2
    /\ Len(response.recommendations) = 5
    /\ response.recommendations[3].type = "supply"
    /\ response.recommendations[4].type = "campaign"
    /\ response.recommendations[5].type = "alert"

\* The ISO year and week a timeline label names.
LabelYearWeek(label) == <<int(SplitLabel(label)[1]), int(SplitLabel(label)[2])>>

\* C14: the labels of the timeline are in strictly increasing chronological
\* (ISO year, ISO week) order, hence pairwise distinct.
C14_TimelineChronological ==
    MktServed =>
        LET timeline == response.demand_trends.timeline
        IN  \A i, j \in 1..Len(timeline) :
                i < j =>
                    LET a == LabelYearWeek(timeline[i].label)
                        b == LabelYearWeek(timeline[j].label)
                    IN  a[1] < b[1] \/ (a[1] = b[1] /\ a[2] < b[2])

\* The timeline of a request has several weeks, of 2023 and 2024.
C14_SeveralWeeks ==
    /\ MktServed
    /\ Len(response.demand_trends.timeline) = 3
    /\ LabelYearWeek(response.demand_trends.timeline[1].label) = <<2023, 51>>
    /\ LabelYearWeek(response.demand_trends.timeline[3].label) = <<2024, 1>>

\* The sort key of an emitted opportunity.
RankKey(item) ==
    <<PriorityRank(item.priority), item.global_popularity, item.potential_monthly_revenue>>

\* C22: of every two emitted opportunities the earlier one has the higher
\* priority rank (high 2, medium 1, low 0), or the same rank and the higher
\* popularity, or the same rank and popularity and a potential revenue that
\* is not lower.
C22_RankingOrder ==
    MktServed =>
        LET missing == response.missing_popular_products
        IN  \A i, j \in 1..Len(missing) :
                i < j =>
                    LET a == RankKey(missing[i])
                        b == RankKey(missing[j])
                    IN  \/ a[1] > b[1]
                        \/ a[1] = b[1] /\ a[2] > b[2]
                        \/ a[1] = b[1] /\ a[2] = b[2] /\ a[3] >= b[3]

\* A "high" product of popularity 0.8 is ranked before a "medium" product of
\* popularity 0.9.
C22_Witness ==
    /\ MktServed
    /\ Len(response.missing_popular_products) = 2
    /\ RankKey(response.missing_popular_products[1])[1] = 2
    /\ RankKey(response.missing_popular_products[2])[1] = 1
    /\ response.missing_popular_products[1].global_popularity = 80
    /\ response.missing_popular_products[2].global_popularity = 90

\* Two products of one priority and one popularity are ranked by revenue.
C22_RevenueBreaksTie ==
    /\ MktServed
    /\ \E i \in 1..(Len(response.missing_popular_products) - 1) :
        LET a == RankKey(response.missing_popular_products[i])
            b == RankKey(response.missing_popular_products[i + 1])
        IN  a[1] = b[1] /\ a[2] = b[2] /\ a[3] > b[3]

\* max(1, round(avg_of_all_points * (1 + momentum * offset))) with
\* momentum = (last - previous) / max(previous, 1), over the totals of a
\* timeline of at least two points.
ProjectedDemand(timeline, offset) ==
    LET n == Len(timeline)
        total == SumSeq([i \in 1..n |-> timeline[i].total_demand])
        last == timeline[n].total_demand
        previous == timeline[n - 1].total_demand
        scaled == Max(previous, 1) + (last - previous) * offset
    IN  IF scaled <= 0 THEN 1
        ELSE Max(1, RoundDiv(total * scaled, n * Max(previous, 1)))

\* The forecast labels: the ISO weeks one and two weeks after the last
\* bucket of the timeline.
ForecastLabelsFollow(timeline, forecast) ==
    LET last == LabelYearWeek(timeline[Len(timeline)].label)
    IN  \A offset \in 1..2 :
            forecast[offset].label =
                WeekLabel(IsoCalendar(FromIsoCalendar(last[1], last[2]) + 7 * offset))

\* C23: a timeline of at least two points, rising, flat or falling, has two
\* forecast points, labelled with the two ISO weeks after the last bucket,
\* whose expected demand is max(1, round(avg * (1 + momentum * offset))).
C23_ForecastFollowsMomentum ==
    MktServed /\ Len(response.demand_trends.timeline) >= 2 =>
        LET timeline == response.demand_trends.timeline
            forecast == response.demand_trends.forecast
        IN  /\ Len(forecast) = 2
            /\ ForecastLabelsFollow(timeline, forecast)
            /\ \A offset \in 1..2 :
                forecast[offset].expected_demand = ProjectedDemand(timeline, offset)

\* The same for the timelines that do not fall.
C23_RisingOrFlat ==
    /\ MktServed
    /\ Len(response.demand_trends.timeline) >= 2
    /\ LET timeline == response.demand_trends.timeline
       IN  timeline[Len(timeline)].total_demand >= timeline[Len(timeline) - 1].total_demand
    => C23_ForecastFollowsMomentum

\* A rising timeline whose forecast grows from one week to the next.
C23_RisingReached ==
    /\ MktServed
    /\ Len(response.demand_trends.timeline) >= 2
    /\ LET timeline == response.demand_trends.timeline
       IN  timeline[Len(timeline)].total_demand > timeline[Len(timeline) - 1].total_demand
    /\ response.demand_trends.forecast[2].expected_demand
         > response.demand_trends.forecast[1].expected_demand

\* The shopkeeper rows of the population that are grouped in a zone: those
\* whose seller works in it.
MktZoneShops(db, q, zone_id) ==
    {i \in MktPopulation(db, q) :
        \E s \in Range(db.sellers) : s.id = db.shopkeepers[i].seller_id /\ s.zone_id = zone_id}

\* The inventory row a (shopkeeper row, position) pair names.
MktRow(db, ij) == db.inventory[db.shopkeepers[ij[1]].id][ij[2]]

\* The units needed by a set of inventory rows, added up.
MktUnitsNeeded(db, rows) ==
    SumSeq([k \in 1..(5 * Len(db.shopkeepers)) |->
                LET ij == <<((k - 1) \div 5) + 1, ((k - 1) % 5) + 1>>
                IN  IF ij \in rows THEN ItemUnitsNeeded(MktRow(db, ij)) ELSE 0])

\* growth_percentage and stock_gap of a product of a zone, over a given
\* number of shopkeepers.
ZoneProductFigures(db, rows, shopkeepers) ==
    LET low_stock == Cardinality({ij \in rows : ItemLowStock(MktRow(db, ij))})
    IN  [growth_percentage |-> Round2(Min(100 * shopkeepers, 100 * low_stock), shopkeepers),
         stock_gap |-> Round2(MktUnitsNeeded(db, rows), shopkeepers)]

\* C24: for every zone group and every product of its top_demands,
\* growth_percentage = min(100, low_stock / shopkeepers_in_zone * 100) and
\* stock_gap = units_needed / shopkeepers_in_zone, where shopkeepers_in_zone
\* is the number of shopkeepers grouped in the zone (shopkeepers_covered).
C24_PerZoneShopkeeper ==
    MktServed =>
        LET q == request.q
            db == MarketDb(request.n, request.kA, request.kB, request.dup, request.anon)
        IN  \A z \in Range(response.zone_trends) :
                LET shops == MktZoneShops(db, q, z.zone_id)
                IN  /\ z.shopkeepers_covered = Cardinality(shops)
                    /\ \A p \in Range(z.top_demands) :
                        LET figures ==
                                ZoneProductFigures(db, MktProductRows(db, shops, p.product_id),
                                                   z.shopkeepers_covered)
                        IN  /\ p.growth_percentage = figures.growth_percentage
                            /\ p.stock_gap = figures.stock_gap

\* What does hold: the two figures are taken over the inventory rows of the
\* product in the zone.
C24_PerInventoryRow ==
    MktServed =>
        LET q == request.q
            db == MarketDb(request.n, request.kA, request.kB, request.dup, request.anon)
        IN  \A z \in Range(response.zone_trends) :
                LET shops == MktZoneShops(db, q, z.zone_id)
                IN  /\ z.shopkeepers_covered = Cardinality(shops)
                    /\ \A p \in Range(z.top_demands) :
                        LET rows == MktProductRows(db, shops, p.product_id)
                            figures == ZoneProductFigures(db, rows, Cardinality(rows))
                        IN  /\ p.growth_percentage = figures.growth_percentage
                            /\ p.stock_gap = figures.stock_gap

\* The visits fetched for the request: what the collaborator answered to the
\* get_visits calls of the call log, one list after the other.
MktFetchedVisits ==
    LET db == MarketDb(request.n, request.kA, request.kB, request.dup, request.anon)
        IsVisitsCall(c) == c[1] = "get_visits"
        calls == SelectSeq(fetches, IsVisitsCall)
    IN  Concat([k \in 1..Len(calls) |-> get_visits(db, calls[k][2][1])])

\* The positions of the given visits that fall in the ISO week of a label,
\* with the given status if one is given.
VisitsOfWeek(visits, label, status) ==
    {i \in 1..Len(visits) :
        /\ visits[i].scheduled_date # None
        /\ IsoCalendar(visits[i].scheduled_date) = LabelYearWeek(label)
        /\ status = NoText \/ visits[i].status = status}

\* In every bucket of the timeline, total_demand, completed and pending count
\* the fetched visits of that week, all of them and those of each status.
BucketsCountWeeks ==
    \A point \in Range(response.demand_trends.timeline) :
        /\ point.total_demand = Cardinality(VisitsOfWeek(MktFetchedVisits, point.label, NoText))
        /\ point.completed =
            Cardinality(VisitsOfWeek(MktFetchedVisits, point.label, "completed"))
        /\ point.pending = Cardinality(VisitsOfWeek(MktFetchedVisits, point.label, "pending"))
        /\ point.completed + point.pending <= point.total_demand

TimelineTotal ==
    SumSeq([i \in 1..Len(response.demand_trends.timeline) |->
                response.demand_trends.timeline[i].total_demand])

\* C25: every fetched visit is counted in exactly one bucket of the timeline,
\* the one of the ISO week of its scheduled date: the total_demand of all
\* buckets adds up to the number of fetched visits, and completed and pending
\* count the visits of the week with that status.
C25_EveryVisitBucketed ==
    MktServed => BucketsCountWeeks /\ TimelineTotal = Len(MktFetchedVisits)

\* What does hold: the buckets count the fetched visits that bear a readable
\* scheduled date.
C25_DatedVisitsBucketed ==
    MktServed =>
        /\ BucketsCountWeeks
        /\ TimelineTotal =
            Cardinality({i \in 1..Len(MktFetchedVisits) :
                            MktFetchedVisits[i].scheduled_date # None})

\* A timeline with a week of several visits, some neither completed nor
\* pending.
C25_MixedWeek ==
    /\ MktServed
    /\ \E point \in Range(response.demand_trends.timeline) :
        point.completed >= 1 /\ point.pending >= 1
        /\ point.completed + point.pending < point.total_demand

\* The shopkeeper rows of the population that hold a product.
MktHolders(db, population, product_id) ==
    {ij[1] : ij \in MktProductRows(db, population, product_id)}

\* The emitted figures of every opportunity are those of the distinct
\* shopkeepers that hold the product.
CountsDistinctHolders ==
    LET q == request.q
        db == MarketDb(request.n, request.kA, request.kB, request.dup, request.anon)
        population == MktPopulation(db, q)
        total == Cardinality(population)
    IN  \A item \in MktItems :
            LET holders == Cardinality(MktHolders(db, population, item.product_id))
            IN  /\ item.missing_shopkeepers = total - holders
                /\ item.global_popularity = Round2(holders, total)
                /\ 0 <= item.global_popularity /\ item.global_popularity <= 100
                /\ 0 <= item.missing_shopkeepers /\ item.missing_shopkeepers <= total

\* C29: for every product, the shopkeepers counted as stocking it are the
\* distinct shopkeepers of the filtered population that hold it, also when
\* an inventory lists the product twice; popularity is in [0, 1] and
\* missing_count in [0, total_shopkeepers].
C29_DistinctShopkeepers ==
    MktServed => CountsDistinctHolders

\* What does hold: the count is right when no inventory repeats a product.
C29_WithoutRepeats ==
    MktServed /\ ~request.dup => CountsDistinctHolders

\* The inventory rows of a set of shopkeeper rows that the category filter
\* of the popularity stage keeps.
MktKeptRows(db, q, shops) ==
    {ij \in shops \X (1..5) :
        LET shop_id == db.shopkeepers[ij[1]].id
            rows == IF shop_id = None THEN <<>> ELSE db.inventory[shop_id]
        IN  /\ ij[2] <= Len(rows)
            /\ ItemProductId(rows[ij[2]]) # None
            /\ PassesCategory(q.category,
                   ItemCategory(rows[ij[2]],
                                CatalogEntry(get_all_products(db, q.category),
                                             ItemProductId(rows[ij[2]]))))}

\* Every product the response reports is the product of a kept row, and the
\* gaps of every zone are those of its kept rows.
ReportsKeptRowsOnly ==
    LET q == request.q
        db == MarketDb(request.n, request.kA, request.kB, request.dup, request.anon)
        kept == {ItemProductId(MktRow(db, ij)) : ij \in MktKeptRows(db, q, MktPopulation(db, q))}
    IN  /\ \A item \in MktItems : item.product_id \in kept
        /\ \A z \in Range(response.zone_trends) :
            LET shops == MktZoneShops(db, q, z.zone_id)
                gap == MktUnitsNeeded(db, MktKeptRows(db, q, shops))
            IN  /\ \A p \in Range(z.top_demands) : p.product_id \in kept
                /\ z.unmet_demand = 100 * gap
                /\ z.avg_stock_gap = Round2(gap, z.shopkeepers_covered)

\* C30: with a category filter, every product reported anywhere in the
\* response belongs to the category: the inventory items the popularity
\* stage excludes are also excluded from each zone's top_demands,
\* avg_stock_gap and unmet_demand.
C30_CategoryEverywhere ==
    MktServed /\ request.q.category # NoText => ReportsKeptRowsOnly

\* What does hold: the missing products are of the category, and without a
\* category filter the zones report all rows.
C30_MissingProductsFiltered ==
    /\ MktServed /\ request.q.category # NoText => \A item \in MktItems : item.category = "Bebidas"
    /\ MktServed /\ request.q.category = NoText => ReportsKeptRowsOnly

\* A filtered response that reports a missing product of the category.
C30_FilteredReached ==
    /\ MktServed /\ request.q.category = "Bebidas"
    /\ \E item \in MktItems : item.product_id = 2

(***************************************************************************)
(* GET /sales-history/shopkeepers/{shopkeeper_id} and the synthetic sales  *)
(* generator                                                               *)
(***************************************************************************)

\* random.Random is a deterministic generator: what a call returns is a
\* function of the seed and of the number of calls made before it.  The state
\* of a stream is the pair of both, seed * 1000 + calls, and never 0.
Random(seed) == seed * 1000

\* One call of the generator changes its state.
Advance(state) == state + 1

\* random(): the 16 bits a call returns, read from the state the call leaves.
Output(state) ==
    LET seed == state \div 1000
        calls == state % 1000
        mixed == (((seed * 40503 + 1) % 65536) * (2 * calls + 1)) % 65536
    IN  (mixed * 25173 + calls * 13849) % 65536

randint(state, a, b) == a + ((Output(state) \div 7) % (b - a + 1))

\* rng.choices(MOCK_STATUSES, weights=[0.7, 0.2, 0.1], k=1)[0]
choices(state) ==
    IF 10 * Output(state) < 7 * 65536 THEN "Completada"
    ELSE IF 10 * Output(state) < 9 * 65536 THEN "Pagada"
    ELSE "Pendiente"

\* Prices in hundredths.
MOCK_PRODUCTS ==
    <<[name |-> "Arroz Premium 1Kg", category |-> "Granos", price |-> 580000, max_quantity |-> 18],
      [name |-> "Aceite Vegetal 1L", category |-> "Aceites", price |-> 920000, max_quantity |-> 12],
      [name |-> "Bebida Energetica 500ml", category |-> "Bebidas", price |-> 450000,
       max_quantity |-> 24],
      [name |-> "Galletas Integrales 12u", category |-> "Snacks", price |-> 720000,
       max_quantity |-> 15],
      [name |-> "Detergente Liquido 2L", category |-> "Aseo", price |-> 1180000,
       max_quantity |-> 8],
      [name |-> "Papel Higienico 12 rollos", category |-> "Aseo", price |-> 1630000,
       max_quantity |-> 6],
      [name |-> "Cafe Molido 500g", category |-> "Bebidas", price |-> 980000, max_quantity |-> 10],
      [name |-> "Azucar Refinada 1Kg", category |-> "Granos", price |-> 460000,
       max_quantity |-> 20]>>

\* datetime.date(): the day of an hour.
DateOf(hour) == hour \div 24

\* (mutant: a drawn status is emitted as drawn)
DrawnStatus(status) == status

\* status if status != "Pagada" else "Completada"
EmittedStatus(status) == IF status # "Pagada" THEN status ELSE "Completada"

\* (mutant: the batch is returned in the order of generation)
UnsortedSales(sales) == sales

\* sales.sort(key=lambda item: item["sold_at"], reverse=True)
SortSales(sales) == SortBy(sales, [i \in 1..Len(sales) |-> sales[i].sold_at], TRUE)

\* (mutant: the window excludes its last day)
InWindowOpenEnd(day, date_start, date_end) == date_start <= day /\ day < date_end

\* date_start <= sale["sold_at"].date() <= date_end
InWindow(day, date_start, date_end) == date_start <= day /\ day <= date_end

\* The record of one pass of the loop, drawn from the five calls that follow
\* state: choice, randint (quantity), randint (days), randint (hours), choices.
\* The invoice number INV-<id>-<date>-<index + 1> is kept as its three parts.
MockSale(shopkeeper_id, index, state, base_datetime) ==
    LET s1 == Advance(state)
        product == MOCK_PRODUCTS[randint(s1, 1, Len(MOCK_PRODUCTS))]
        s2 == Advance(s1)
        quantity == randint(s2, 1, product.max_quantity)
        s3 == Advance(s2)
        days_ago == randint(s3, 0, 60)
        s4 == Advance(s3)
        hours_offset == randint(s4, 0, 23)
        sold_at == base_datetime - (24 * days_ago + hours_offset)
        s5 == Advance(s4)
        status == choices(s5)
    IN  [sale_id |-> shopkeeper_id * 1000 + index + 1,
         invoice_number |-> <<shopkeeper_id, DateOf(sold_at), index + 1>>,
         product_name |-> product.name,
         category |-> product.category,
         quantity |-> quantity,
         unit_price |-> product.price,
         total_amount |-> quantity * product.price,
         sold_at |-> sold_at,
         status |-> EmittedStatus(status)]

\* _generate_mock_sales(shopkeeper_id, rng), reading the clock at utcnow: the
\* list it returns and the state in which it leaves rng.
generate_mock_sales(shopkeeper_id, state, utcnow) ==
    LET s0 == Advance(state)
        num_records == randint(s0, 6, 14)
        sales ==
            [k \in 1..num_records |->
                MockSale(shopkeeper_id, k - 1, s0 + 5 * (k - 1), utcnow)]
    IN  [sales |-> SortSales(sales),
         rng |-> s0 + 5 * num_records]

\* The answer for an id the directory does not know (None).
NoRow == [id |-> None, seller_id |-> None, name |-> None]

get_shopkeeper_by_id(db, shopkeeper_id) ==
    LET IsRequested(k) == k.id = shopkeeper_id
        rows == SelectSeq(db.shopkeepers, IsRequested)
    IN  IF db.user_up /\ rows # <<>> THEN rows[1] ELSE NoRow

get_seller_by_id(db, seller_id) ==
    LET IsRequested(k) == k.id = seller_id
        rows == SelectSeq(db.sellers, IsRequested)
    IN  IF db.user_up /\ rows # <<>> THEN rows[1] ELSE NoRow

\* (mutant: one Random for the whole service, seeded by its first request)
SharedStream(shopkeeper_id, current) ==
    IF current = None THEN Random(shopkeeper_id) ELSE current

\* rng = Random(shopkeeper_id): the stream a request draws from, whatever
\* state an earlier request left its own stream in.
FreshStream(shopkeeper_id, current) == Random(shopkeeper_id)

\* The handler's outcome: its response, the state in which it leaves the
\* stream, and the runs of the generator it made (what each run was given
\* and the list it returned).
get_sales_history(db, shopkeeper_id, start_date, end_date, utcnow, current) ==
    LET date_end == IF end_date # None THEN end_date ELSE DateOf(utcnow)
        date_start == IF start_date # None THEN start_date ELSE date_end - 30
        shopkeeper == get_shopkeeper_by_id(db, shopkeeper_id)
        seller_info ==
            IF shopkeeper.seller_id # None THEN get_seller_by_id(db, shopkeeper.seller_id)
            ELSE NoRow
        stream == FreshStream(shopkeeper_id, current)
        generated == generate_mock_sales(shopkeeper_id, stream, utcnow)
        InRange(sale) == InWindow(DateOf(sale.sold_at), date_start, date_end)
        filtered_sales == SelectSeq(generated.sales, InRange)
        total_records == Len(filtered_sales)
        total_amount == SumSeq([i \in 1..total_records |-> filtered_sales[i].total_amount])
    IN  IF date_start > date_end
        THEN [response |-> [status |-> 400], rng |-> current, runs |-> <<>>]
        ELSE IF shopkeeper = NoRow
        THEN [response |-> [status |-> 404], rng |-> current, runs |-> <<>>]
        ELSE [response |->
                [status |-> 200,
                 shopkeeper_id |-> shopkeeper_id,
                 seller_id |-> IF seller_info # NoRow THEN seller_info.id
                               ELSE shopkeeper.seller_id,
                 range_start |-> date_start,
                 range_end |-> date_end,
                 summary |->
                    [total_records |-> total_records,
                     total_units |->
                        SumSeq([i \in 1..total_records |-> filtered_sales[i].quantity]),
                     total_amount |-> total_amount,
                     average_ticket |->
                        IF total_records # 0 THEN RoundDiv(total_amount, total_records)
                        ELSE 0],
                 sales |-> filtered_sales],
              rng |-> generated.rng,
              runs |-> <<[shopkeeper_id |-> shopkeeper_id, stream |-> stream,
                          anchor |-> utcnow, sales |-> generated.sales]>>]

\* Bounds of the sales data sets: shopkeepers 1..MaxSalesId exist, and the
\* clock advances by up to MaxTicks hours (past midnight).
MaxSalesId == 2

MaxTicks == 2

\* The collaborators' data while the user service is reachable (up) or not.
SalesDbAt(up) ==
    [geo_up |-> TRUE, user_up |-> up,
     cities |-> CityRows(1), zones |-> ZoneRows(1),
     sellers |-> <<[id |-> 1, name |-> 1, zone_id |-> 1, total_shopkeepers |-> NoField]>>,
     shopkeepers |->
        [j \in 1..MaxSalesId |->
            [id |-> j, seller_id |-> IF j = 1 THEN 1 ELSE None, name |-> j]],
     assignments |-> <<>>]

SalesDb == SalesDbAt(TRUE)

\* <<start_date, end_date>>: the default window, an open end, an end before
\* the default start, a window of one day, and an inverted window.
SalesWindows == {<<None, None>>, <<40, None>>, <<None, 20>>, <<45, 45>>, <<50, 40>>}

\* The last two runs of the generator.
LastTwo(s) == IF Len(s) <= 2 THEN s ELSE SubSeq(s, Len(s) - 1, Len(s))

\* The calls get_sales_history makes: none for an inverted window, the
\* shopkeeper, and the seller of a shopkeeper that was found and has one.
SalesHistoryFetches(db, shopkeeper_id, start_date, end_date, utcnow) ==
    LET date_end == IF end_date # None THEN end_date ELSE DateOf(utcnow)
        date_start == IF start_date # None THEN start_date ELSE date_end - 30
        shopkeeper == get_shopkeeper_by_id(db, shopkeeper_id)
    IN  IF date_start > date_end THEN <<>>
        ELSE <<Call("get_shopkeeper_by_id", shopkeeper_id)>>
             \o (IF shopkeeper # NoRow /\ shopkeeper.seller_id # None
                 THEN <<Call("get_seller_by_id", shopkeeper.seller_id)>> ELSE <<>>)

SalesHistory ==
    /\ Admitted("sales-history")
    /\ \E shopkeeper_id \in 1..(MaxSalesId + 1), w \in SalesWindows, up \in BOOLEAN :
        LET out == get_sales_history(SalesDbAt(up), shopkeeper_id, w[1], w[2], now, rng)
        IN  /\ request' = [endpoint |-> "sales-history", shopkeeper_id |-> shopkeeper_id,
                           start_date |-> w[1], end_date |-> w[2], up |-> up]
            /\ response' = out.response
            /\ rng' = out.rng
            /\ runs' = LastTwo(runs \o out.runs)
            /\ fetches' = SalesHistoryFetches(SalesDbAt(up), shopkeeper_id, w[1], w[2], now)
            /\ UNCHANGED <<now, token, paging, tasks>>

\* An hour passes.
Tick ==
    /\ now < utcnow_at_start + MaxTicks
    /\ now' = now + 1
    /\ UNCHANGED <<request, response, rng, runs, token, fetches, paging, tasks>>

NextSales == Arrive("sales-history", Roles) \/ SalesHistory \/ Tick \/ Reply

SpecSales == Init /\ [][NextSales]_vars

SalesServed == request.endpoint = "sales-history" /\ response.status = 200

GeneratedSales == runs[Len(runs)].sales

\* The positions of the generated list whose sold_at date is in the window
\* of the response, both ends included.
WindowPositions ==
    {i \in 1..Len(GeneratedSales) :
        /\ response.range_start <= DateOf(GeneratedSales[i].sold_at)
        /\ DateOf(GeneratedSales[i].sold_at) <= response.range_end}

\* C26: the returned sales are exactly the generated records whose sold_at
\* date d satisfies start_date <= d <= end_date, and the summary gives their
\* count, the sum of their quantities, the sum of their amounts, and
\* average_ticket = total_amount / total_records (to the cent), or 0 when no
\* record falls in the window.
C26_WindowAndSummary ==
    SalesServed =>
        LET sales == response.sales
            summary == response.summary
            units == SumSeq([i \in 1..Len(sales) |-> sales[i].quantity])
            amount == SumSeq([i \in 1..Len(sales) |-> sales[i].total_amount])
        IN  /\ request.start_date # None => response.range_start = request.start_date
            /\ request.end_date # None => response.range_end = request.end_date
            /\ Len(sales) = Cardinality(WindowPositions)
            /\ \A i \in WindowPositions : \E j \in 1..Len(sales) : sales[j] = GeneratedSales[i]
            /\ \A j \in 1..Len(sales) : \E i \in WindowPositions : sales[j] = GeneratedSales[i]
            /\ summary.total_records = Len(sales)
            /\ summary.total_units = units
            /\ summary.total_amount = amount
            /\ summary.average_ticket =
                IF Len(sales) = 0 THEN 0 ELSE RoundDiv(amount, Len(sales))

\* A window of one day returns the records of that day, and only those.
C26_Witness ==
    /\ SalesServed
    /\ request.start_date = 45 /\ request.end_date = 45
    /\ Len(response.sales) >= 1
    /\ Len(response.sales) < Len(GeneratedSales)
    /\ response.summary.average_ticket > 0

\* A window in which no record falls.
C26_EmptyWindow ==
    /\ SalesServed
    /\ response.sales = <<>>
    /\ response.summary.average_ticket = 0

\* The product of the catalog a record names.
CatalogProductOf(sale) ==
    {p \in Range(MOCK_PRODUCTS) :
        p.name = sale.product_name /\ p.category = sale.category /\ p.price = sale.unit_price}

\* C27: every generated batch has 6 to 14 records; the product of each record
\* is one of the 8 catalog entries, its quantity lies in [1, max_quantity],
\* its sold_at between the anchor - 60 days - 23 hours and the anchor, its
\* total_amount is quantity * unit_price, and its status is Completada or
\* Pendiente.
C27_BatchInvariants ==
    \A r \in 1..Len(runs) :
        /\ 6 <= Len(runs[r].sales) /\ Len(runs[r].sales) <= 14
        /\ Len(MOCK_PRODUCTS) = 8
        /\ \A sale \in Range(runs[r].sales) :
            /\ \E p \in CatalogProductOf(sale) :
                1 <= sale.quantity /\ sale.quantity <= p.max_quantity
            /\ runs[r].anchor - (60 * 24 + 23) <= sale.sold_at
            /\ sale.sold_at <= runs[r].anchor
            /\ sale.total_amount = sale.quantity * sale.unit_price
            /\ sale.status \in {"Completada", "Pendiente"}

\* The status drawn for a record of a run: the fifth draw of its pass of the
\* loop, the pass being the last three digits of sale_id.
StatusDrawn(run, sale) == choices(Advance(run.stream) + 5 * (sale.sale_id % 1000))

\* A batch with a record for which Pagada was drawn, emitted as Completada,
\* and with a record for which Pendiente was drawn.
C27_Witness ==
    /\ Len(runs) >= 1
    /\ \E sale \in Range(runs[1].sales) :
        StatusDrawn(runs[1], sale) = "Pagada" /\ sale.status = "Completada"
    /\ \E sale \in Range(runs[1].sales) : sale.status = "Pendiente"

\* C28: the list the generator returns is in non-increasing sold_at order,
\* and so is the window-filtered list of the response.
C28_NewestFirst ==
    /\ \A r \in 1..Len(runs) :
        \A i, j \in 1..Len(runs[r].sales) :
            i < j => runs[r].sales[i].sold_at >= runs[r].sales[j].sold_at
    /\ SalesServed =>
        \A i, j \in 1..Len(response.sales) :
            i < j => response.sales[i].sold_at >= response.sales[j].sold_at

\* A served list of several records that the generator did not draw in
\* that order.
C28_Witness ==
    /\ SalesServed
    /\ Len(response.sales) >= 3
    /\ \E i \in 1..(Len(response.sales) - 1) :
        /\ response.sales[i].sale_id > response.sales[i + 1].sale_id
        /\ response.sales[i].sold_at > response.sales[i + 1].sold_at


(***************************************************************************)
(* GET /zones/{zone_id}/statistics, GET /metrics and POST /export, and the *)
(* endpoints that answer only to an authenticated caller                   *)
(***************************************************************************)

NoZone == [id |-> None, name |-> NoText, city_id |-> None]

get_zone_by_id(db, zone_id) ==
    LET IsRequested(z) == z.id = zone_id
        rows == SelectSeq(db.zones, IsRequested)
    IN  IF db.geo_up /\ rows # <<>> THEN rows[1] ELSE NoZone

\* get_all_shopkeepers(unassigned=True): the shopkeepers without seller.
get_unassigned_shopkeepers(db) ==
    LET Unassigned(k) == k.seller_id = None
    IN  IF db.user_up THEN SelectSeq(db.shopkeepers, Unassigned) ELSE <<>>

get_zone_statistics(db, zone_id) ==
    LET zone == get_zone_by_id(db, zone_id)
        sellers == get_all_sellers(db, zone_id)
        all_shopkeepers == get_all_shopkeepers(db, None)
        unassigned == get_unassigned_shopkeepers(db)
        SellerShops(seller) ==
            LET OfSeller(k) == k.seller_id = seller.id IN SelectSeq(all_shopkeepers, OfSeller)
        zone_shopkeepers == Concat([i \in 1..Len(sellers) |-> SellerShops(sellers[i])])
        assigned_count == Len(zone_shopkeepers)
        unassigned_count == Len(unassigned)
    IN  IF zone = NoZone THEN [status |-> 404]
        ELSE [status |-> 200,
              zone_id |-> zone.id,
              zone_name |-> zone.name,
              city_name |-> NoText,
              sellers_count |-> Len(sellers),
              shopkeepers_count |-> assigned_count + unassigned_count,
              assigned_shopkeepers |-> assigned_count,
              unassigned_shopkeepers |-> unassigned_count,
              avg_shopkeepers_per_seller |->
                  IF sellers # <<>> THEN RoundDiv(assigned_count, Len(sellers)) ELSE 0]

\* The calls get_zone_statistics makes: the zone, and the rest once the zone
\* is found.
ZoneStatisticsFetches(db, zone_id) ==
    <<Call("get_zone_by_id", zone_id)>>
    \o (IF get_zone_by_id(db, zone_id) = NoZone THEN <<>>
        ELSE <<Call("get_all_sellers", zone_id), Call("get_all_shopkeepers", None),
               Call("get_all_shopkeepers unassigned", None)>>)

get_system_metrics(db) ==
    LET cities == get_all_cities(db)
        zones == get_all_zones(db, None)
        sellers == get_all_sellers(db, None)
        shopkeepers == get_all_shopkeepers(db, None)
        unassigned == get_unassigned_shopkeepers(db)
        assignments == get_all_assignments(db)
        active_assignments == Len(SelectSeq(assignments, IsActiveAssignment))
    IN  [status |-> 200,
         total_cities |-> Len(cities),
         total_zones |-> Len(zones),
         total_sellers |-> Len(sellers),
         total_shopkeepers |-> Len(shopkeepers),
         active_assignments |-> active_assignments,
         unassigned_shopkeepers |-> Len(unassigned),
         avg_shopkeepers_per_seller |->
             IF Len(sellers) > 0 THEN RoundDiv(active_assignments, Len(sellers)) ELSE 0,
         system_health |->
             IF Len(sellers) > 0 /\ Len(shopkeepers) > 0 THEN "healthy" ELSE "warning"]

SystemMetricsFetches ==
    <<Call("get_all_cities", None), Call("get_all_zones", None),
      Call("get_all_sellers", None), Call("get_all_shopkeepers", None),
      Call("get_all_shopkeepers unassigned", None), Call("get_all_assignments", None)>>

\* export_report.  The body of the download is kept as the rows that are
\* written and, for csv, the header line, which is the key list of the first
\* row and is missing when there is no row.
export_report(db, report_type, format, city_id) ==
    LET zones == get_all_zones(db, city_id)
        sellers == get_all_sellers(db, None)
        ZoneSellers(zone) ==
            LET InZone(s) == s.zone_id = zone.id IN SelectSeq(sellers, InZone)
        data ==
            IF report_type = "coverage"
            THEN [i \in 1..Len(zones) |->
                    <<zones[i].id, zones[i].name, NoText, Len(ZoneSellers(zones[i]))>>]
            ELSE [i \in 1..Len(sellers) |->
                    <<sellers[i].id, sellers[i].name, sellers[i].zone_id,
                      sellers[i].total_shopkeepers>>]
        fieldnames ==
            IF report_type = "coverage"
            THEN <<"zone_id", "zone_name", "city_name", "total_sellers">>
            ELSE <<"id", "name", "zone_id", "total_shopkeepers">>
    IN  IF report_type \notin {"coverage", "sellers"} THEN [status |-> 400]
        ELSE IF format = "csv"
        THEN [status |-> 200, media_type |-> "text/csv",
              lines |-> IF data # <<>> THEN <<fieldnames>> \o data ELSE <<>>]
        ELSE IF format = "json"
        THEN [status |-> 200, media_type |-> "application/json", lines |-> data]
        ELSE [status |-> 400]

\* The calls export_report makes; the format is looked at after them.
ExportFetches(report_type, city_id) ==
    IF report_type = "coverage"
    THEN <<Call("get_all_zones", city_id), Call("get_all_sellers", None)>>
    ELSE IF report_type = "sellers" THEN <<Call("get_all_sellers", None)>>
    ELSE <<>>

\* The data sets of these three endpoints: up to GwSellers sellers, and three
\* assignments of which one is active, one is not, and one has no is_active
\* key.
GwSellers == 2

GwRows == UNION {[1..n -> CovRow] : n \in 0..GwSellers}

GwDb(rows, up) ==
    [CovDb(rows, up) EXCEPT
        !.assignments = <<[id |-> 1, is_active |-> "true"], [id |-> 2, is_active |-> "false"],
                          [id |-> 3, is_active |-> "absent"]>>]

ZoneStatisticsReport ==
    /\ Admitted("zone-statistics")
    /\ \E rows \in GwRows, up \in Availability, zone_id \in CovZones \cup {3} :
        /\ request' = [endpoint |-> "zone-statistics", rows |-> rows, up |-> up,
                       zone_id |-> zone_id]
        /\ response' = get_zone_statistics(GwDb(rows, up), zone_id)
        /\ fetches' = ZoneStatisticsFetches(GwDb(rows, up), zone_id)
        /\ UNCHANGED <<rng, now, runs, token, paging, tasks>>

SystemMetricsReport ==
    /\ Admitted("metrics")
    /\ \E rows \in GwRows, up \in Availability :
        /\ request' = [endpoint |-> "metrics", rows |-> rows, up |-> up]
        /\ response' = get_system_metrics(GwDb(rows, up))
        /\ fetches' = SystemMetricsFetches
        /\ UNCHANGED <<rng, now, runs, token, paging, tasks>>

ExportReport ==
    /\ Admitted("export")
    /\ \E rows \in GwRows, up \in Availability, report_type \in {"coverage", "sellers", "zones"},
          format \in {"csv", "json", "xml"}, city_id \in {None, 1} :
        /\ request' = [endpoint |-> "export", rows |-> rows, up |-> up,
                       report_type |-> report_type, format |-> format, city_id |-> city_id]
        /\ response' = export_report(GwDb(rows, up), report_type, format, city_id)
        /\ fetches' = ExportFetches(report_type, city_id)
        /\ UNCHANGED <<rng, now, runs, token, paging, tasks>>

\* The five endpoints the test suite calls without credentials.
GatewayEndpoints == {"coverage", "sellers-performance", "zone-statistics", "metrics", "export"}

NextGateway ==
    \/ Arrive("coverage", Roles)
    \/ CoverageReport
    \/ Arrive("sellers-performance", Roles)
    \/ SellersPerformance
    \/ Arrive("zone-statistics", Roles)
    \/ ZoneStatisticsReport
    \/ Arrive("metrics", Roles)
    \/ SystemMetricsReport
    \/ Arrive("export", Roles)
    \/ ExportReport
    \/ Reply

SpecGateway == Init /\ [][NextGateway]_vars

\* The request bears "Authorization: Bearer <token>" with a token that is
\* well signed, not expired, and names its subject.
HasValidBearer(tk) == tk.scheme = "bearer" /\ tk.decodes /\ tk.sub # None

\* C20: a request for coverage, sellers-performance, zone-statistics, metrics
\* or export that bears no valid bearer token is answered 401; its handler
\* does not run and no call to a collaborator is made for it.
C20_UnauthorizedBeforeHandler ==
    request # NoRequest /\ ~HasValidBearer(token)
        => /\ request.endpoint = "rejected"
           /\ request.target \in GatewayEndpoints
           /\ response = Unauthorized
           /\ fetches = <<>>

\* An export request with an expired token is turned away.
C20_Witness ==
    /\ request = [endpoint |-> "rejected", target |-> "export"]
    /\ token.scheme = "bearer" /\ ~token.decodes
    /\ response.status = 401
    /\ fetches = <<>>

\* The five endpoints serve a caller that bears a valid token.
C20_ServedWithToken ==
    /\ request.endpoint = "zone-statistics"
    /\ HasValidBearer(token)
    /\ response.status = 200
    /\ Len(fetches) = 4

(***************************************************************************)
(* Unreachable collaborators                                               *)
(***************************************************************************)

\* The endpoints that look a single entity up, with one that does not.
NextUpstream ==
    \/ Arrive("zone-statistics", Roles)
    \/ ZoneStatisticsReport
    \/ Arrive("metrics", Roles)
    \/ SystemMetricsReport
    \/ Arrive("sales-history", Roles)
    \/ SalesHistory
    \/ Reply

SpecUpstream == Init /\ [][NextUpstream]_vars

AllUp == <<TRUE, TRUE>>

\* What the request in flight is answered when every collaborator answers.
StatusWhenReachable ==
    IF request.endpoint = "zone-statistics"
    THEN get_zone_statistics(GwDb(request.rows, AllUp), request.zone_id).status
    ELSE IF request.endpoint = "metrics"
    THEN get_system_metrics(GwDb(request.rows, AllUp)).status
    ELSE get_sales_history(SalesDbAt(TRUE), request.shopkeeper_id, request.start_date,
                           request.end_date, now, rng).response.status

\* C16: a request that would get a report from reachable collaborators gets
\* one (with reduced figures) from unreachable ones too; the failure of a
\* collaborator is not answered with an error.
C16_FailureNotSurfaced ==
    /\ request.endpoint \in {"zone-statistics", "metrics", "sales-history"}
    /\ StatusWhenReachable = 200
    => response.status = 200

\* The system metrics are zeroed, not refused, while the user service is down.
C16_MetricsDegrade ==
    /\ request.endpoint = "metrics"
    /\ request.up = <<TRUE, FALSE>>
    /\ response.status = 200
    /\ response.total_sellers = 0 /\ response.system_health = "warning"

(***************************************************************************)
(* Periods that end before they start                                      *)
(***************************************************************************)

\* The endpoints that take a period, but for the market analysis.
NextPeriod ==
    \/ Arrive("sales-history", Roles)
    \/ SalesHistory
    \/ Arrive("visits-compliance", RestrictedRoles)
    \/ VisitsCompliance
    \/ Reply

SpecPeriod == Init /\ [][NextPeriod]_vars

\* The request in flight names a start_date and an end_date, and the first
\* is later than the second.
PeriodInverted ==
    \/ /\ request.endpoint = "sales-history"
       /\ request.start_date # None /\ request.end_date # None
       /\ request.start_date > request.end_date
    \/ /\ request.endpoint = "visits-compliance"
       /\ request.q.role = "ADMIN"
       /\ request.q.period[1] # None /\ request.q.period[2] # None
       /\ request.q.period[1] > request.q.period[2]

\* C18: a request whose start_date is later than its end_date is answered
\* with a validation error, before any collaborator is asked.
C18_InvertedPeriodRefused ==
    PeriodInverted => response.status = 400 /\ fetches = <<>>

\* The sales history refuses an inverted period before it looks the
\* shopkeeper up, be the shopkeeper known or not.
C18_SalesRefused ==
    /\ request.endpoint = "sales-history"
    /\ request.start_date = 50 /\ request.end_date = 40
    /\ request.shopkeeper_id = MaxSalesId + 1
    /\ response.status = 400
    /\ fetches = <<>>

(***************************************************************************)
(* MicroserviceClient.get_visits, page by page (http_client.py).  The      *)
(* visits the collaborator holds for the query are numbered 1..held in the *)
(* order it serves them; a page, and the list the call accumulates, are    *)
(* kept as intervals <<first, last>> of these numbers.                     *)
(***************************************************************************)

limit == 1000

max_iterations == 100

NotCalled == [pc |-> "idle"]

\* How many visits the collaborator holds: none, one, around one page,
\* several pages, and around the most the loop can ask for.
HeldCounts ==
    {0, 1, limit - 1, limit, limit + 1, 2 * limit + 500,
     limit * max_iterations - 1, limit * max_iterations, limit * max_iterations + 1}

\* The body of a 200 answer: a VisitListResponse (visits and total), a bare
\* list, or something else.
Shapes == {"dict", "list", "other"}

\* What goes wrong, and at which request of the call: nothing, a non-200
\* status, or an httpx.RequestError.
NoFault == [kind |-> "none", page |-> 0]

Faults == {NoFault} \cup [kind : {"status", "transport"}, page : {1, 2, 3}]

\* The visits a request with this skip and limit is answered with.
Page(held, skip) ==
    IF skip >= held THEN <<>> ELSE <<<<skip + 1, Min(skip + limit, held)>>>>

PageLen(page) == IF page = <<>> THEN 0 ELSE page[1][2] - page[1][1] + 1

\* The call returns result.
Returned(result, count) ==
    [paging EXCEPT !.pc = "done", !.result = result, !.returned = count]

\* get_visits is called.
StartVisits ==
    /\ request = NoRequest
    /\ paging = NotCalled
    /\ \E held \in HeldCounts, shape \in Shapes, fault \in Faults :
        paging' = [pc |-> "page", held |-> held, shape |-> shape, fault |-> fault,
                   skip |-> 0, iteration |-> 0, all_visits |-> <<>>, count |-> 0,
                   result |-> <<>>, returned |-> 0]
    /\ UNCHANGED <<request, response, rng, now, runs, token, fetches, tasks>>

\* One turn of "for iteration in range(max_iterations)": a page is asked
\* for and handled, or the range is exhausted and the call returns.
FetchPage ==
    /\ paging.pc = "page"
    /\ LET page == Page(paging.held, paging.skip)
           all_visits == paging.all_visits \o page
           count == paging.count + PageLen(page)
           Next(p) == [p EXCEPT !.all_visits = all_visits, !.count = count,
                                !.skip = paging.skip + limit,
                                !.iteration = paging.iteration + 1]
       IN  paging' =
             IF paging.iteration = max_iterations
             THEN Returned(paging.all_visits, paging.count)
             ELSE IF paging.fault.page = paging.iteration + 1
             THEN IF paging.fault.kind = "transport"
                  THEN Returned(<<>>, 0)
                  ELSE Returned(paging.all_visits, paging.count)
             ELSE IF paging.shape = "dict"
             THEN IF PageLen(page) < limit \/ count >= paging.held
                  THEN Returned(all_visits, count)
                  ELSE Next(paging)
             ELSE IF paging.shape = "list"
             THEN IF PageLen(page) < limit
                  THEN Returned(all_visits, count)
                  ELSE Next(paging)
             ELSE Returned(paging.all_visits, paging.count)
    /\ UNCHANGED <<request, response, rng, now, runs, token, fetches, tasks>>

\* The caller has the result.
ReturnVisits ==
    /\ paging.pc = "done"
    /\ paging' = NotCalled
    /\ UNCHANGED <<request, response, rng, now, runs, token, fetches, tasks>>

NextVisits == StartVisits \/ FetchPage \/ ReturnVisits

SpecVisits == Init /\ [][NextVisits]_vars

\* The call has returned, and some request of it failed.
ReturnedAfterFault ==
    /\ paging.pc = "done"
    /\ paging.fault # NoFault
    /\ paging.fault.page <= paging.iteration + 1

\* C15: a get_visits call one of whose requests meets an unreachable
\* collaborator or a non-success status returns the empty list, whichever
\* request of the call it is.
C15_EmptyOnFailure ==
    ReturnedAfterFault => paging.result = <<>>

\* A transport error on the second page discards the first page.
C15_TransportDiscards ==
    /\ ReturnedAfterFault
    /\ paging.fault = [kind |-> "transport", page |-> 2]
    /\ paging.held > limit
    /\ paging.result = <<>>

\* The result is the visits 1..held, each once, in the order served.
Drained ==
    LET result == paging.result
    IN  /\ paging.returned = paging.held
        /\ paging.held > 0 => /\ result # <<>>
                              /\ result[1][1] = 1
                              /\ result[Len(result)][2] = paging.held
        /\ \A i \in 1..(Len(result) - 1) : result[i + 1][1] = result[i][2] + 1

\* C17: a get_visits call that meets no failure, against a collaborator that
\* answers with a VisitListResponse or a list, returns every visit the
\* collaborator holds exactly once.
C17_FullyDrained ==
    /\ paging.pc = "done"
    /\ paging.fault = NoFault
    /\ paging.shape \in {"dict", "list"}
    => Drained

\* limit * max_iterations visits are still drained, in max_iterations pages.
C17_LastDrained ==
    /\ paging.pc = "done"
    /\ paging.fault = NoFault
    /\ paging.shape = "list"
    /\ paging.held = limit * max_iterations
    /\ Len(paging.result) = max_iterations
    /\ Drained

(***************************************************************************)
(* Requests served at the same time.  asyncio runs one handler at a time   *)
(* and switches to another one only at an await, which in the handlers is  *)
(* a call of the client.  A task is a request that has passed              *)
(* get_current_user; it takes one step per await: the step receives the    *)
(* answer of the pending call and runs the handler up to its next call or  *)
(* to its end.  The collaborators serve each task the data set it names    *)
(* (rows), so that two tasks may or may not see the same data.             *)
(***************************************************************************)

MaxTasks == 2

Slots == 1..MaxTasks

NoQuery == [role |-> NoText]

IdleTask ==
    [pc |-> "idle", endpoint |-> "none", q |-> NoQuery, rows |-> <<>>, sellers |-> <<>>,
     zones |-> <<>>, k |-> 0, all_visits |-> <<>>, response |-> NoResponse]

\* The data sets and queries of the concurrent visits-compliance requests: one
\* seller or two, every seller or seller 1 only, and a caller who is refused.
TaskRows == {<<<<1, 0, 0>>>>, <<<<1, 1, 0>>, <<0, 1, 1>>>>}

TaskQueries ==
    [role : {"ADMIN"}, seller_id : {None, 1}, zone_id : {None},
     sort_by : {"compliance_percentage"}, sort_order : {"desc"}, period : {NoPeriod}]
    \cup [role : {"SELLER"}, seller_id : {None}, zone_id : {None},
          sort_by : {"compliance_percentage"}, sort_order : {"desc"}, period : {NoPeriod}]

\* The concurrent sales-history requests, as <<shopkeeper_id, start_date,
\* end_date>>: a known and an unknown shopkeeper, a period that is refused.
TaskSales == {<<1, None, None>>, <<MaxSalesId + 1, None, None>>, <<1, 50, 40>>}

\* (mutant: all_visits is one list of the module, which every request uses)
LocalsOfModule(t) == 1

\* Where the local variables of the handler that serves task t live.
Locals(t) == t

Finished(task, response_sent) == [task EXCEPT !.pc = "done", !.response = response_sent]

\* The event loop is started with every slot free.
StartLoop ==
    /\ request = NoRequest
    /\ paging = NotCalled
    /\ tasks = <<>>
    /\ tasks' = [t \in Slots |-> IdleTask]
    /\ UNCHANGED <<request, response, rng, now, runs, token, fetches, paging>>

\* get_visits_compliance up to its first await.
BeginCompliance(t) ==
    /\ tasks # <<>>
    /\ tasks[t].pc = "idle"
    /\ \E rows \in TaskRows, q \in TaskQueries :
        LET task == [IdleTask EXCEPT !.endpoint = "visits-compliance", !.q = q, !.rows = rows]
        IN  tasks' = [tasks EXCEPT ![t] =
                        IF q.role # "ADMIN" THEN Finished(task, [status |-> 403])
                        ELSE [task EXCEPT !.pc = "get_all_sellers"]]
    /\ UNCHANGED <<request, response, rng, now, runs, token, fetches, paging>>

\* sellers = await get_all_sellers(...)
FetchSellers(t) ==
    /\ tasks # <<>>
    /\ tasks[t].pc = "get_all_sellers"
    /\ tasks' = [tasks EXCEPT ![t].sellers = get_all_sellers(CplDb(tasks[t].rows), tasks[t].q.zone_id),
                              ![t].pc = "get_all_zones"]
    /\ UNCHANGED <<request, response, rng, now, runs, token, fetches, paging>>

\* zones = await get_all_zones(); the sellers are narrowed, all_visits = [],
\* and the loop over the sellers starts.
FetchZones(t) ==
    /\ tasks # <<>>
    /\ tasks[t].pc = "get_all_zones"
    /\ LET zones == get_all_zones(CplDb(tasks[t].rows), None)
           sellers == SelectedSellers(tasks[t].sellers, tasks[t].q.seller_id)
           emptied == [tasks EXCEPT ![Locals(t)].all_visits = <<>>]
       IN  tasks' =
             IF sellers = <<>>
             THEN [emptied EXCEPT ![t].zones = zones, ![t].sellers = sellers, ![t].pc = "done",
                                  ![t].response = ComplianceReport(sellers, zones, <<>>, tasks[t].q)]
             ELSE [emptied EXCEPT ![t].zones = zones, ![t].sellers = sellers, ![t].k = 1,
                                  ![t].pc = "get_visits"]
    /\ UNCHANGED <<request, response, rng, now, runs, token, fetches, paging>>

\* visits = await get_visits(seller_id=seller["id"], ...);
\* all_visits.extend(visits); after the last seller the report is derived.
FetchVisits(t) ==
    /\ tasks # <<>>
    /\ tasks[t].pc = "get_visits"
    /\ LET task == tasks[t]
           visits == get_visits(CplDb(task.rows), task.sellers[task.k].id)
           extended == [tasks EXCEPT ![Locals(t)].all_visits = @ \o visits]
           all_visits == extended[Locals(t)].all_visits
       IN  tasks' =
             IF task.k < Len(task.sellers)
             THEN [extended EXCEPT ![t].k = task.k + 1]
             ELSE [extended EXCEPT ![t].pc = "done",
                                   ![t].response =
                                       ComplianceReport(task.sellers, task.zones, all_visits, task.q)]
    /\ UNCHANGED <<request, response, rng, now, runs, token, fetches, paging>>

\* get_sales_history up to its first await: the period is validated.
BeginSales(t) ==
    /\ tasks # <<>>
    /\ tasks[t].pc = "idle"
    /\ \E q \in TaskSales :
        LET task == [IdleTask EXCEPT !.endpoint = "sales-history", !.rows = q]
            date_end == IF q[3] # None THEN q[3] ELSE DateOf(now)
            date_start == IF q[2] # None THEN q[2] ELSE date_end - 30
        IN  tasks' = [tasks EXCEPT ![t] =
                        IF date_start > date_end THEN Finished(task, [status |-> 400])
                        ELSE [task EXCEPT !.pc = "get_shopkeeper_by_id"]]
    /\ UNCHANGED <<request, response, rng, now, runs, token, fetches, paging>>

\* The sales are generated and the history is derived.
Generated(t) ==
    LET q == tasks[t].rows
        out == get_sales_history(SalesDb, q[1], q[2], q[3], now, rng)
    IN  /\ tasks' = [tasks EXCEPT ![t] = Finished(@, out.response)]
        /\ rng' = out.rng
        /\ runs' = LastTwo(runs \o out.runs)

\* shopkeeper = await get_shopkeeper_by_id(...)
FetchShopkeeper(t) ==
    /\ tasks # <<>>
    /\ tasks[t].pc = "get_shopkeeper_by_id"
    /\ LET shopkeeper == get_shopkeeper_by_id(SalesDb, tasks[t].rows[1])
       IN  IF shopkeeper = NoRow
           THEN /\ tasks' = [tasks EXCEPT ![t] = Finished(@, [status |-> 404])]
                /\ UNCHANGED <<rng, runs>>
           ELSE IF shopkeeper.seller_id # None
           THEN /\ tasks' = [tasks EXCEPT ![t].pc = "get_seller_by_id"]
                /\ UNCHANGED <<rng, runs>>
           ELSE Generated(t)
    /\ UNCHANGED <<request, response, now, token, fetches, paging>>

\* seller_info = await get_seller_by_id(...)
FetchSeller(t) ==
    /\ tasks # <<>>
    /\ tasks[t].pc = "get_seller_by_id"
    /\ Generated(t)
    /\ UNCHANGED <<request, response, now, token, fetches, paging>>

\* The response of a task is sent.
Complete(t) ==
    /\ tasks # <<>>
    /\ tasks[t].pc = "done"
    /\ tasks' = [tasks EXCEPT ![t] = IdleTask]
    /\ UNCHANGED <<request, response, rng, now, runs, token, fetches, paging>>

NextConcurrent ==
    \/ StartLoop
    \/ \E t \in Slots :
        \/ BeginCompliance(t)
        \/ FetchSellers(t)
        \/ FetchZones(t)
        \/ FetchVisits(t)
        \/ BeginSales(t)
        \/ FetchShopkeeper(t)
        \/ FetchSeller(t)
        \/ Complete(t)

SpecConcurrent == Init /\ [][NextConcurrent]_vars

\* What a request of this endpoint, query and data set is answered when it
\* is served alone by a service that has served nothing before.
ServedAlone(task) ==
    IF task.endpoint = "visits-compliance"
    THEN get_visits_compliance(CplDb(task.rows), task.q)
    ELSE get_sales_history(SalesDb, task.rows[1], task.rows[2], task.rows[3], now, None).response

\* C11: the response of a request depends on its query and on the data the
\* collaborators serve it only: it is what the request is answered when
\* served alone, whatever was served before it and whichever other requests
\* ran between its awaits; two requests with the same query and data get the
\* same response.
C11_RequestsIndependent ==
    tasks # <<>> =>
        /\ \A t \in Slots : tasks[t].pc = "done" => tasks[t].response = ServedAlone(tasks[t])
        /\ \A s, t \in Slots :
            /\ tasks[s].pc = "done" /\ tasks[t].pc = "done"
            /\ tasks[s].endpoint = tasks[t].endpoint
            /\ tasks[s].rows = tasks[t].rows
            /\ tasks[s].q = tasks[t].q
            => tasks[s].response = tasks[t].response

\* Task 2 has its report of two sellers although, between its awaits, task 1
\* was refused a sales history, asked for a report of the same sellers and
\* is now suspended in the middle of its visits loop; sales were generated
\* before.
C11_Witness ==
    /\ tasks # <<>>
    /\ rng # None
    /\ tasks[2].pc = "done" /\ tasks[2].endpoint = "visits-compliance"
    /\ tasks[2].response.status = 200
    /\ Len(tasks[2].sellers) = 2
    /\ tasks[1].pc = "get_visits" /\ tasks[1].k = 2
    /\ tasks[1].rows = tasks[2].rows
    /\ tasks[1].all_visits # <<>>

(***************************************************************************)
(* Role check of the restricted endpoints                                  *)
(***************************************************************************)

\* A request for one of the two restricted endpoints has been handled.
RestrictedHandled == request.endpoint \in {"market-opportunities", "visits-compliance"}

\* C19: a market-opportunities or visits-compliance request of a caller
\* whose role is not ADMIN is answered 403, and no call to a collaborator
\* has been made for it.
C19_ForbiddenWithoutFetch ==
    RestrictedHandled /\ get_current_user(token).role # "ADMIN"
        => response.status = 403 /\ fetches = <<>>

\* A seller asks for the market opportunities of a population that an
\* administrator would get an analysis of, and is turned away.
C19_Witness ==
    /\ request.endpoint = "market-opportunities"
    /\ get_current_user(token).role = "SELLER"
    /\ request.n = 3
    /\ response.status = 403
    /\ fetches = <<>>

=============================================================================
